---------------------------- MODULE Spec2Model ----------------------------
(***************************************************************************)
(* A model of the retrieval-enhancement engine of the product manual       *)
(* assistant (src/services/advanced_retrieval.py, class AdvancedRetrieval) *)
(* and of the settings and the query log of the engine that calls it       *)
(* (src/core/qa_engine.py, class QAEngine).                                *)
(*                                                                         *)
(* Texts are TLA+ strings over ASCII and the characters of the structure   *)
(* pattern.  Scores are exact rationals [n, d] in lowest terms: the        *)
(* rounding of the binary floating point the program computes with is not  *)
(* modelled.                                                               *)
(***************************************************************************)
EXTENDS Integers, Sequences, FiniteSets, TLC

VARIABLES
    query,      \* the query argument of get_enhanced_context
    chunks,     \* the candidate list argument (a sequence of texts)
    strategy,   \* the strategy argument of the last call
    result,     \* the dictionary the last call returned, or NoResult
    selected,   \* the local list top_chunks of the strategy that ran last
    pc,         \* "input": the caller builds the arguments; "returned"
    text1,      \* first text handed to a scorer called on its own
    text2,      \* second text handed to a scorer called on its own
    simlog,     \* results of _calculate_similarity_score: [a, b, val]
    kwlog,      \* results of _extract_keywords: [text, keywords]
    varlog,     \* results of _generate_query_variations: [query, variations]
    retrieval_strategies,   \* self.retrieval_strategies: name -> method
    frames,     \* the frame of get_enhanced_context in each thread
    retrieval_strategy,     \* QAEngine: self.retrieval_strategy
    prompt_style,           \* QAEngine: self.prompt_style
    use_enhanced_context,   \* QAEngine: self.use_enhanced_context
    use_chain_of_thought,   \* QAEngine: self.use_chain_of_thought
    query_metadata,         \* st.session_state.query_metadata, <<>> while absent
    asked,      \* the calls of ask so far: [completed, failed]
    reply       \* what the last call of ask or get_performance_metrics returned

vars == <<query, chunks, strategy, result, selected, pc, text1, text2, simlog, kwlog,
          varlog, retrieval_strategies, frames, retrieval_strategy, prompt_style,
          use_enhanced_context, use_chain_of_thought, query_metadata, asked, reply>>

engineVars == <<query, chunks, strategy, result, selected, pc>>
scorerVars == <<text1, text2, simlog, kwlog, varlog>>
threadVars == <<retrieval_strategies, frames>>
qaVars == <<retrieval_strategy, prompt_style, use_enhanced_context, use_chain_of_thought,
            query_metadata, asked, reply>>

-----------------------------------------------------------------------------
(* Characters and strings                                                  *)

UpperChars == "ABCDEFGHIJKLMNOPQRSTUVWXYZ"
LowerChars == "abcdefghijklmnopqrstuvwxyz"
DigitChars == "0123456789"

CharAt(s, i) == SubSeq(s, i, i)

CharsOf(s) == {CharAt(s, i) : i \in 1..Len(s)}

UpperSet == CharsOf(UpperChars)
LowerSet == CharsOf(LowerChars)
DigitSet == CharsOf(DigitChars)

\* \s of the re module, for the ASCII characters of the model
SpaceSet == {" ", "\n", "\t"}

\* \w of the re module: letters, digits and the underscore
IsWordChar(c) == c \in UpperSet \/ c \in LowerSet \/ c \in DigitSet \/ c = "_"

LowerTable ==
    [c \in UpperSet |->
        CharAt(LowerChars, CHOOSE i \in 1..Len(UpperChars) : CharAt(UpperChars, i) = c)]

LowerChar(c) == IF c \in UpperSet THEN LowerTable[c] ELSE c

RECURSIVE StrLower(_)
\* str.lower(): every character lower-cased (the two halves apart, so that
\* the evaluation nests no deeper than the logarithm of the length)
StrLower(s) ==
    IF s = "" THEN ""
    ELSE IF Len(s) = 1 THEN LowerChar(s)
    ELSE StrLower(SubSeq(s, 1, Len(s) \div 2))
            \o StrLower(SubSeq(s, (Len(s) \div 2) + 1, Len(s)))

\* needle in hay
StrContains(hay, needle) ==
    \E i \in 0..(Len(hay) - Len(needle)) : SubSeq(hay, i + 1, i + Len(needle)) = needle

\* s.startswith(prefix)
StartsWith(s, prefix) ==
    Len(prefix) <= Len(s) /\ SubSeq(s, 1, Len(prefix)) = prefix

\* The least element of a non-empty set of integers
Least(S) == CHOOSE i \in S : \A j \in S : i <= j

RECURSIVE StrReplace(_, _, _)
\* s.replace(old, new) for a non-empty old: every non-overlapping occurrence,
\* from the left
StrReplace(s, old, new) ==
    LET at == {i \in 1..(Len(s) - Len(old) + 1) : SubSeq(s, i, i + Len(old) - 1) = old}
    IN  IF at = {} THEN s
        ELSE SubSeq(s, 1, Least(at) - 1) \o new
                \o StrReplace(SubSeq(s, Least(at) + Len(old), Len(s)), old, new)

\* s.strip(): leading and trailing whitespace removed
StrStrip(s) ==
    IF \A i \in 1..Len(s) : CharAt(s, i) \in SpaceSet THEN ""
    ELSE SubSeq(s,
                CHOOSE i \in 1..Len(s) :
                    /\ CharAt(s, i) \notin SpaceSet
                    /\ \A j \in 1..(i - 1) : CharAt(s, j) \in SpaceSet,
                CHOOSE i \in 1..Len(s) :
                    /\ CharAt(s, i) \notin SpaceSet
                    /\ \A j \in (i + 1)..Len(s) : CharAt(s, j) \in SpaceSet)

Range(f) == {f[i] : i \in DOMAIN f}

RECURSIVE JoinWith(_, _)
\* sep.join(parts)
JoinWith(parts, sep) ==
    IF Len(parts) = 0 THEN ""
    ELSE IF Len(parts) = 1 THEN parts[1]
    ELSE parts[1] \o sep \o JoinWith(Tail(parts), sep)

\* The end of the maximal run of word characters that starts at i
WordEnd(s, i) ==
    Least({j \in i..Len(s) : j = Len(s) \/ ~IsWordChar(CharAt(s, j + 1))})

WordStarts(s) ==
    {i \in 1..Len(s) :
        IsWordChar(CharAt(s, i)) /\ (i = 1 \/ ~IsWordChar(CharAt(s, i - 1)))}

\* re.findall(r'\b\w+\b', s): the maximal runs of word characters, in order
FindWords(s) ==
    LET starts == WordStarts(s)
        kth(k) == CHOOSE i \in starts : Cardinality({j \in starts : j <= i}) = k
    IN  [k \in 1..Cardinality(starts) |-> SubSeq(s, kth(k), WordEnd(s, kth(k)))]

-----------------------------------------------------------------------------
(* Exact rationals                                                         *)

RECURSIVE Gcd(_, _)
Gcd(a, b) == IF b = 0 THEN a ELSE Gcd(b, a % b)

Abs(a) == IF a < 0 THEN -a ELSE a

\* n / d in lowest terms, d > 0
Rat(n, d) ==
    LET g == Gcd(Abs(n), Abs(d))
        s == IF d < 0 THEN -1 ELSE 1
    IN  [n |-> (s * n) \div g, d |-> (s * d) \div g]

Zero == Rat(0, 1)
One  == Rat(1, 1)

\* The sum, difference and product are built over the least common
\* denominator and from cross-reduced factors, so that no intermediate value
\* is larger than the result needs
RAdd(a, b) ==
    LET g == Gcd(a.d, b.d)
    IN  Rat(a.n * (b.d \div g) + b.n * (a.d \div g), (a.d \div g) * b.d)
RSub(a, b) ==
    LET g == Gcd(a.d, b.d)
    IN  Rat(a.n * (b.d \div g) - b.n * (a.d \div g), (a.d \div g) * b.d)
RMul(a, b) ==
    LET g1 == Gcd(Abs(a.n), b.d)
        g2 == Gcd(Abs(b.n), a.d)
    IN  Rat((a.n \div g1) * (b.n \div g2), (a.d \div g2) * (b.d \div g1))
RDivInt(a, k) ==
    LET g == Gcd(Abs(a.n), k)
    IN  Rat(a.n \div g, a.d * (k \div g))
RLess(a, b) ==
    LET g == Gcd(a.d, b.d)
    IN  a.n * (b.d \div g) < b.n * (a.d \div g)
RLeq(a, b) ==
    LET g == Gcd(a.d, b.d)
    IN  a.n * (b.d \div g) <= b.n * (a.d \div g)
RMin(a, b)  == IF RLeq(a, b) THEN a ELSE b

RECURSIVE RSum(_)
RSum(seq) == IF Len(seq) = 0 THEN Zero ELSE RAdd(seq[1], RSum(Tail(seq)))

\* sum(values) / len(values) of a non-empty list
MeanOf(values) == RDivInt(RSum(values), Len(values))

-----------------------------------------------------------------------------
(* Query expander                                                          *)

\* _generate_query_variations before list(set(...)): the list of rewrites
QueryVariationList(q) ==
    LET query_lower == StrLower(q)
        howto == IF StrContains(query_lower, "how")
                 THEN <<StrReplace(q, "how", "what steps"),
                        StrReplace(q, "how", "procedure for"),
                        StrReplace(q, "how", "method to")>>
                 ELSE <<>>
        problem == IF \E w \in {"error", "problem", "issue"} : StrContains(query_lower, w)
                   THEN <<StrReplace(q, "error", "solution"),
                          StrReplace(q, "problem", "fix"),
                          StrReplace(q, "issue", "resolve")>>
                   ELSE <<>>
        definition == IF StartsWith(query_lower, "what is")
                      THEN <<StrReplace(q, "what is", "define"),
                             StrReplace(q, "what is", "explain"),
                             StrReplace(q, "what is", "describe")>>
                      ELSE <<>>
    IN  <<q>> \o howto \o problem \o definition

\* _generate_query_variations: the set behind the list it returns
GenerateQueryVariations(q) == Range(QueryVariationList(q))

-----------------------------------------------------------------------------
(* The texts of the callers                                                *)

\* Queries of callers that hand over up to MaxChunks passages; the last two
\* have a keyword that only one of the passages holds, and no keyword
Queries == {"install Filter error", "problem?", "noise error", "is it in?"}

RECURSIVE Repeat(_, _)
\* s * n of Python: n copies of s in a row
Repeat(s, n) ==
    IF n = 0 THEN ""
    ELSE IF n = 1 THEN s
    ELSE Repeat(s, n \div 2) \o Repeat(s, n - (n \div 2))

\* A passage of n characters
PassageOfLength(n) == "Replace filter " \o Repeat("x", n - 15)

\* The texts of the corner cases of the scores:
\*   ExampleQuery, ExampleCandidates: the worked example of the hybrid strategy;
\*   ManyKeywordsQuery: a query of 22 keywords and one stop word;
\*   FullMarksQuery, FullMarksPassage: a query and a passage of 210 characters
\*     that repeats it, as a list item made of full sentences;
\*   NoKeywordsQuery: a query of words that are all stop words or too short
\*     for a keyword;  NoWordsQuery: a query that holds no word;
\*   ThresholdQuery, ThresholdPassage: a query of three concepts and a passage
\*     of ten that holds all three;
\*   ShortPassagesQuery, LongPassagesQuery: two queries whose passages have a
\*     length next to a bound of the length bonus: 99 and 100 characters, 500
\*     and 501;
\*   RewrittenQuery: a query with a rewrite that is closer to a passage than
\*     the query is;
\*   PriceQuery, PricedPassage: a query and a passage of plain prose that
\*     names a price in euros
CaseTexts ==
    [ExampleQuery |-> "How do I install the filter?",
     ExampleCandidates |->
        <<"Step 1: remove cover. Step 2: install filter.",
          "Specifications: voltage 12V, weight 2kg.",
          "Contact support for help.">>,
     ManyKeywordsQuery |->
        "aaa bbb ccc ddd eee fff ggg hhh iii jjj kkk lll mmm nnn ooo ppp qqq rrr sss ttt uuu vvv is",
     FullMarksQuery |-> "install filter",
     FullMarksPassage |-> "- " \o Repeat("install filter. ", 13),
     NoKeywordsQuery |-> "Is it on?",
     NoWordsQuery |-> "?!",
     ThresholdQuery |-> "install connect configure",
     ThresholdPassage |->
        "install connect configure check verify replace repair setup test 5 V",
     ShortPassagesQuery |-> "replace filter",
     LongPassagesQuery |-> "replace the filter",
     RewrittenQuery |-> "filter error",
     PriceQuery |-> "spare filter price",
     PricedPassage |-> "A spare filter costs 5 €"]

\* Queries of callers whose passages meet the corner cases of the scores
CaseQueries ==
    {CaseTexts.ExampleQuery, CaseTexts.ManyKeywordsQuery,
     CaseTexts.FullMarksQuery, CaseTexts.NoKeywordsQuery, CaseTexts.NoWordsQuery,
     CaseTexts.ThresholdQuery, CaseTexts.ShortPassagesQuery,
     CaseTexts.LongPassagesQuery, CaseTexts.RewrittenQuery, CaseTexts.PriceQuery}

\* The passages the upstream retriever holds for a query
Retrieved(q) ==
    CASE q = "install Filter error" ->
            {"Install Filter.", "install the Filter", "install, test 5 V"}
      [] q = "noise error" -> {"noise", "error code 7 shown"}
      [] q = "is it in?" -> {"it is in", "?!"}
      [] q = CaseTexts.ExampleQuery -> Range(CaseTexts.ExampleCandidates)
      [] q = CaseTexts.ManyKeywordsQuery -> {"aaa", "is " \o Repeat("z", 97)}
      [] q = CaseTexts.FullMarksQuery -> {CaseTexts.FullMarksPassage, ""}
      [] q \in {CaseTexts.NoKeywordsQuery, CaseTexts.NoWordsQuery} -> {"It is on.", "?!"}
      [] q = CaseTexts.ThresholdQuery -> {CaseTexts.ThresholdPassage, "install and connect"}
      [] q = CaseTexts.ShortPassagesQuery -> {PassageOfLength(99), PassageOfLength(100)}
      [] q = CaseTexts.LongPassagesQuery -> {PassageOfLength(500), PassageOfLength(501)}
      [] q = CaseTexts.RewrittenQuery -> {"The solution: replace filter.", "?!"}
      [] q = CaseTexts.PriceQuery -> {CaseTexts.PricedPassage, "Ask for the price. "}
      [] OTHER -> {"?!", "", "Fix the problem"}

\* Every text the engine meets when it is called with these queries and
\* passages
EngineTexts ==
    LET queries == Queries \cup CaseQueries
    IN  queries \cup UNION {Retrieved(q) : q \in queries}
                \cup UNION {GenerateQueryVariations(q) : q \in queries}

-----------------------------------------------------------------------------
(* Lexical analyzer and similarity scorer                                  *)

StopWords ==
    {"the", "a", "an", "and", "or", "but", "in", "on", "at", "to", "for", "of",
     "with", "by", "is", "are", "was", "were", "be", "been", "have", "has",
     "had", "do", "does", "did", "will", "would", "could", "should", "may",
     "might", "can", "this", "that", "these", "those"}

\* The shortest token _extract_keywords keeps has more than this many characters
MinKeywordLen == 2

\* _extract_keywords with a suffix-stripping slip: a trailing "s" is cut off
\* every token before the filters
ExtractKeywordsStemmed(text) ==
    LET words == FindWords(StrLower(text))
        stem(w) == IF Len(w) > 1 /\ CharAt(w, Len(w)) = "s"
                   THEN SubSeq(w, 1, Len(w) - 1) ELSE w
    IN  {stem(words[i]) : i \in {j \in DOMAIN words :
            stem(words[j]) \notin StopWords /\ Len(stem(words[j])) > MinKeywordLen}}

\* The words of the list that are no stop words and long enough
Keywords(words) ==
    {words[i] : i \in {j \in DOMAIN words :
        words[j] \notin StopWords /\ Len(words[j]) > MinKeywordLen}}

\* _extract_keywords: the set behind the list it returns
ExtractKeywords(text) == Keywords(FindWords(StrLower(text)))

\* set(re.findall(r'\b\w+\b', text.lower()))
WordSet(text) == Range(FindWords(StrLower(text)))

\* WordSet, worked out once for each text of the callers
WordSetTable == [t \in EngineTexts |-> WordSet(t)]

WordSetOf(text) ==
    IF text \in DOMAIN WordSetTable THEN WordSetTable[text] ELSE WordSet(text)

\* _calculate_similarity_score without the guard for an empty word set,
\* the quotient 0 / 0 read as 1
SimilarityScoreUnguarded(t1, t2) ==
    LET words1 == WordSetOf(t1)
        words2 == WordSetOf(t2)
    IN  IF words1 \cup words2 = {} THEN One
        ELSE Rat(Cardinality(words1 \cap words2), Cardinality(words1 \cup words2))

\* _calculate_similarity_score dividing by the first text's word count
SimilarityScoreByFirst(t1, t2) ==
    LET words1 == WordSetOf(t1)
        words2 == WordSetOf(t2)
    IN  IF words1 = {} \/ words2 = {} THEN Zero
        ELSE Rat(Cardinality(words1 \cap words2), Cardinality(words1))

\* _calculate_similarity_score on the texts as they are, not lower-cased
SimilarityScoreCaseSensitive(t1, t2) ==
    LET words1 == Range(FindWords(t1))
        words2 == Range(FindWords(t2))
    IN  IF words1 = {} \/ words2 = {} THEN Zero
        ELSE Rat(Cardinality(words1 \cap words2), Cardinality(words1 \cup words2))

\* len(intersection) / len(union), behind the guard for an empty set
Jaccard(set1, set2) ==
    IF set1 = {} \/ set2 = {} THEN Zero
    ELSE Rat(Cardinality(set1 \cap set2), Cardinality(set1 \cup set2))

\* _calculate_similarity_score
SimilarityScore(t1, t2) == Jaccard(WordSetOf(t1), WordSetOf(t2))

-----------------------------------------------------------------------------
(* Concept extraction                                                      *)

\* The last index of the maximal run of characters of S that starts at i;
\* i - 1 when there is none
RunEnd(s, i, S) ==
    Least({j \in (i - 1)..Len(s) : j >= Len(s) \/ CharAt(s, j + 1) \notin S})

\* \b before the word character at i, and after the word character at e
BoundaryBefore(s, i) == i = 1 \/ ~IsWordChar(CharAt(s, i - 1))
BoundaryAfter(s, e) == e = Len(s) \/ ~IsWordChar(CharAt(s, e + 1))

\* Where [A-Z][a-z]+ ends when it is matched at p; 0 when it does not match
CapWordEnd(s, p) ==
    IF p + 1 <= Len(s) /\ CharAt(s, p) \in UpperSet /\ CharAt(s, p + 1) \in LowerSet
    THEN RunEnd(s, p + 1, LowerSet)
    ELSE 0

RECURSIVE TitleExtend(_, _)
\* (?:\s+[A-Z][a-z]+)*\b after a phrase that ends at e: the greedy repetition
\* gives back a last word that is not followed by a word boundary
TitleExtend(s, e) ==
    LET w  == RunEnd(s, e + 1, SpaceSet)
        e2 == IF w > e THEN CapWordEnd(s, w + 1) ELSE 0
    IN  IF e2 > 0 /\ BoundaryAfter(s, e2) THEN TitleExtend(s, e2) ELSE e

\* Where \b[A-Z][a-z]+(?:\s+[A-Z][a-z]+)*\b ends when matched at i; 0: no match
TitleMatchEnd(s, i) ==
    LET e == CapWordEnd(s, i)
    IN  IF e > 0 /\ BoundaryBefore(s, i) /\ BoundaryAfter(s, e)
        THEN TitleExtend(s, e)
        ELSE 0

Units == <<"mm", "cm", "in", "kg", "lb", "V", "A", "W", "Hz">>

\* Where \d+\s*(?:mm|cm|in|kg|lb|V|A|W|Hz) ends when matched at i; 0: no match
MeasureMatchEnd(s, i) ==
    IF CharAt(s, i) \notin DigitSet THEN 0
    ELSE LET d  == RunEnd(s, i, DigitSet)
             w  == RunEnd(s, d + 1, SpaceSet)
             us == {k \in DOMAIN Units : StartsWith(SubSeq(s, w + 1, Len(s)), Units[k])}
         IN  IF us = {} THEN 0
             ELSE w + Len(Units[Least(us)])

\* The end of the match of the named pattern that starts at i; 0 when there
\* is none
MatchEnd(pattern, s, i) ==
    IF pattern = "tech_terms" THEN TitleMatchEnd(s, i) ELSE MeasureMatchEnd(s, i)

RECURSIVE FindAllFrom(_, _, _)
\* The match from start to end and the matches behind it
MatchAndRest(pattern, s, start, end) ==
    <<SubSeq(s, start, end)>> \o FindAllFrom(pattern, s, end + 1)

\* The matches from the first of the positions at on, at the positions where
\* the pattern matches
MatchesAt(pattern, s, at) ==
    IF at = {} THEN <<>>
    ELSE MatchAndRest(pattern, s, Least(at), MatchEnd(pattern, s, Least(at)))

\* re.findall for the named pattern: leftmost matches, not overlapping, the
\* search going on behind each match
FindAllFrom(pattern, s, i) ==
    MatchesAt(pattern, s, {k \in i..Len(s) : MatchEnd(pattern, s, k) > 0})

ActionWords ==
    {"install", "connect", "configure", "setup", "test", "check", "verify",
     "replace", "repair"}

\* The action words among the words of the lower-cased text
ActionWordsIn(words) ==
    {words[i] : i \in {j \in DOMAIN words : words[j] \in ActionWords}}

\* _extract_semantic_concepts: the set behind the list it returns
ExtractSemanticConcepts(text) ==
    Range(FindAllFrom("tech_terms", text, 1))
        \cup Range(FindAllFrom("measurements", text, 1))
        \cup ActionWordsIn(FindWords(StrLower(text)))

\* ExtractSemanticConcepts, worked out once for each text of the callers
ConceptTable == [t \in EngineTexts |-> ExtractSemanticConcepts(t)]

\* The concepts of a text of the callers
ConceptsOf(text) == ConceptTable[text]

\* _calculate_concept_overlap
ConceptOverlap(concepts1, concepts2) == Jaccard(concepts1, concepts2)

-----------------------------------------------------------------------------
(* Hybrid, quality and diversity scores                                    *)

\* _count_keyword_matches: the keywords that occur in the lower-cased text,
\* as substrings
CountKeywordMatches(text, keywords) ==
    LET text_lower == StrLower(text)
    IN  Cardinality({k \in keywords : StrContains(text_lower, k)})

LenBonusMin == 100
LenBonusMax == 500

\* _calculate_hybrid_score with the bounds of the length bonus left out of
\* the range: 100 < len(chunk) < 500
HybridScoreExclusive(chunk, q, keywords) ==
    LET keyword_matches == CountKeywordMatches(chunk, keywords)
        keyword_score   == IF keywords # {}
                           THEN Rat(keyword_matches, Cardinality(keywords)) ELSE Zero
        semantic_score  == SimilarityScore(chunk, q)
        length_penalty  == IF LenBonusMin < Len(chunk) /\ Len(chunk) < LenBonusMax
                           THEN One ELSE Rat(8, 10)
    IN  RAdd(RAdd(RMul(keyword_score, Rat(4, 10)), RMul(semantic_score, Rat(5, 10))),
             RMul(length_penalty, Rat(1, 10)))

\* _calculate_hybrid_score
HybridScore(chunk, q, keywords) ==
    LET keyword_matches == CountKeywordMatches(chunk, keywords)
        keyword_score   == IF keywords # {}
                           THEN Rat(keyword_matches, Cardinality(keywords)) ELSE Zero
        semantic_score  == SimilarityScore(chunk, q)
        length_penalty  == IF LenBonusMin <= Len(chunk) /\ Len(chunk) <= LenBonusMax
                           THEN One ELSE Rat(8, 10)
    IN  RAdd(RAdd(RMul(keyword_score, Rat(4, 10)), RMul(semantic_score, Rat(5, 10))),
             RMul(length_penalty, Rat(1, 10)))

\* _calculate_relevance_score
RelevanceScore(chunk, q) == SimilarityScore(chunk, q)

QualityLen == 200

\* The members of the character class [-â€¢*] of the structure pattern
BulletChars == {"-", "â", "€", "¢", "*"}

\* re.search(r'\d+\.', chunk)
HasNumberedItem(chunk) ==
    \E i \in 1..(Len(chunk) - 1) :
        CharAt(chunk, i) \in DigitSet /\ CharAt(chunk, i + 1) = "."

\* _calculate_quality_score without the cap of the length score at 1.0
QualityScoreUncapped(chunk) ==
    LET length_score    == Rat(Len(chunk), QualityLen)
        structure_score == IF HasNumberedItem(chunk)
                              \/ \E i \in 1..Len(chunk) : CharAt(chunk, i) \in BulletChars
                           THEN One ELSE Rat(1, 2)
        stripped        == StrStrip(chunk)
        sentence_score  == IF stripped # "" /\ CharAt(stripped, Len(stripped)) \in {".", "!", "?"}
                           THEN One ELSE Rat(1, 2)
    IN  RAdd(RAdd(RMul(length_score, Rat(4, 10)), RMul(structure_score, Rat(3, 10))),
             RMul(sentence_score, Rat(3, 10)))

\* _calculate_quality_score
QualityScore(chunk) ==
    LET length_score    == RMin(Rat(Len(chunk), QualityLen), One)
        structure_score == IF HasNumberedItem(chunk)
                              \/ \E i \in 1..Len(chunk) : CharAt(chunk, i) \in BulletChars
                           THEN One ELSE Rat(1, 2)
        stripped        == StrStrip(chunk)
        sentence_score  == IF stripped # "" /\ CharAt(stripped, Len(stripped)) \in {".", "!", "?"}
                           THEN One ELSE Rat(1, 2)
    IN  RAdd(RAdd(RMul(length_score, Rat(4, 10)), RMul(structure_score, Rat(3, 10))),
             RMul(sentence_score, Rat(3, 10)))

\* _calculate_diversity_score: existing is the list of entries built so far
DiversityScore(chunk, existing) ==
    IF existing = <<>> THEN One
    ELSE RSub(One, MeanOf([i \in DOMAIN existing |->
                              SimilarityScore(chunk, existing[i].chunk)]))

-----------------------------------------------------------------------------
(* Sorting and selection                                                   *)

\* key=lambda x: x[key]
KeyOf(key, e) == IF key = "score" THEN e.score ELSE e.semantic_overlap

RECURSIVE InsertDesc(_, _, _)
\* e put into the list sorted by descending key, behind every entry whose
\* key is not smaller
InsertDesc(key, sorted, e) ==
    IF sorted = <<>> THEN <<e>>
    ELSE IF RLess(KeyOf(key, sorted[1]), KeyOf(key, e)) THEN <<e>> \o sorted
         ELSE <<sorted[1]>> \o InsertDesc(key, Tail(sorted), e)

RECURSIVE SortDescFrom(_, _, _, _)
SortDescFrom(key, list, i, acc) ==
    IF i > Len(list) THEN acc
    ELSE SortDescFrom(key, list, i + 1, InsertDesc(key, acc, list[i]))

\* list.sort(key=..., reverse=True) and sorted(..., reverse=True): descending by
\* key, entries of equal key in their original order
SortDesc(key, list) == SortDescFrom(key, list, 1, <<>>)

Min(a, b) == IF a <= b THEN a ELSE b

\* list[:min(k, len(list))]
TakeTop(list, k) == SubSeq(list, 1, Min(k, Len(list)))

\* sum(c[field] for c in top) / len(top) if top else 0
Average(values) == IF values = <<>> THEN Zero ELSE MeanOf(values)

-----------------------------------------------------------------------------
(* Context composer                                                        *)

RECURSIVE IntToStr(_)
\* str(n) for n >= 0
IntToStr(n) ==
    IF n < 10 THEN CharAt(DigitChars, n + 1)
    ELSE IntToStr(n \div 10) \o CharAt(DigitChars, (n % 10) + 1)

\* f"{r:.2f}" for r >= 0: two decimals, an exact tie rounded to the even digit
Fmt2(r) ==
    LET q     == (r.n * 100) \div r.d
        rem   == (r.n * 100) % r.d
        cents == IF 2 * rem > r.d \/ (2 * rem = r.d /\ q % 2 = 1) THEN q + 1 ELSE q
    IN  IntToStr(cents \div 100) \o "." \o IntToStr((cents % 100) \div 10)
            \o IntToStr(cents % 10)

\* The elements of S as the list list(set(...)) returns under the iteration
\* order h, a list that holds every hashed string once
ListOfSet(S, h) ==
    LET keep == {i \in DOMAIN h : h[i] \in S}
        rank(i) == Cardinality({j \in keep : j <= i})
    IN  [k \in 1..Cardinality(keep) |-> h[CHOOSE i \in keep : rank(i) = k]]

\* The head of a section numbered from 0, as enumerate numbers without a start
SectionHeadFromZero(i) == "[Section " \o IntToStr(i - 1) \o " - "

\* The head of the section of rank i: enumerate(chunks, 1)
SectionHead(i) == "[Section " \o IntToStr(i) \o " - "

\* _combine_chunks_with_context
CombineChunksWithContext(top) ==
    JoinWith([i \in DOMAIN top |->
                SectionHead(i) \o "Relevance: " \o Fmt2(top[i].score)
                    \o ", Keywords: " \o IntToStr(top[i].keywords_found) \o "]\n"
                    \o top[i].chunk],
             "\n\n")

\* _create_structured_context
CreateStructuredContext(top) ==
    JoinWith([i \in DOMAIN top |->
                SectionHead(i) \o "Relevance: " \o Fmt2(top[i].relevance)
                    \o ", Quality: " \o Fmt2(top[i].quality) \o "]\n"
                    \o top[i].chunk],
             "\n\n")

\* _create_context_with_variations
CreateContextWithVariations(top) ==
    JoinWith([i \in DOMAIN top |->
                SectionHead(i) \o "Best Match: '" \o top[i].best_match
                    \o "', Score: " \o Fmt2(top[i].score) \o "]\n"
                    \o top[i].chunk],
             "\n\n")

MaxConceptsShown == 5

\* _create_semantic_context
CreateSemanticContext(top) ==
    JoinWith([i \in DOMAIN top |->
                SectionHead(i) \o "Semantic Overlap: " \o Fmt2(top[i].semantic_overlap)
                    \o ", Concepts: "
                    \o JoinWith(TakeTop(top[i].concepts, MaxConceptsShown), ", ")
                    \o "]\n" \o top[i].chunk],
             "\n\n")

\* _calculate_keyword_coverage that takes no keywords for all of them covered
KeywordCoverageVacuous(top, keywords) ==
    IF keywords = {} THEN One
    ELSE LET chunk_lower == [i \in DOMAIN top |-> StrLower(top[i].chunk)]
             covered_keywords ==
                 {k \in keywords : \E i \in DOMAIN top : StrContains(chunk_lower[i], k)}
         IN  Rat(Cardinality(covered_keywords), Cardinality(keywords))

\* _calculate_keyword_coverage
KeywordCoverage(top, keywords) ==
    IF keywords = {} THEN Zero
    ELSE LET chunk_lower == [i \in DOMAIN top |-> StrLower(top[i].chunk)]
             covered_keywords ==
                 {k \in keywords : \E i \in DOMAIN top : StrContains(chunk_lower[i], k)}
         IN  Rat(Cardinality(covered_keywords), Cardinality(keywords))

-----------------------------------------------------------------------------
(* Ranking strategies                                                      *)
(*                                                                         *)
(* Each strategy yields [top, result]: top is its local list top_chunks,   *)
(* result the dictionary it returns.  An entry's pos is the position in    *)
(* the candidate list of the element the entry was built from; the code's  *)
(* entries hold it as 'index' (from 0) in hybrid and rerank only.          *)

HybridTopK == 5
RerankTopK == 4
MultiQueryTopK == 5
SemanticTopK == 4

\* The entry _hybrid_retrieval appends for the candidate at position i
ScoredChunk(q, cs, keywords, i) ==
    [chunk |-> cs[i],
     score |-> HybridScore(cs[i], q, keywords),
     index |-> i - 1,
     keywords_found |-> CountKeywordMatches(cs[i], keywords),
     pos |-> i]

\* What _hybrid_retrieval would return with the keyword coverage taken over
\* every candidate
HybridResultCoverageOfAll(top_chunks, keywords, cs) ==
    [top |-> top_chunks,
     result |->
        [enhanced_context |-> CombineChunksWithContext(top_chunks),
         strategy |-> "hybrid",
         chunks_analyzed |-> Len(cs),
         top_chunks |-> Len(top_chunks),
         average_score |-> Average([i \in DOMAIN top_chunks |-> top_chunks[i].score]),
         keyword_coverage |-> KeywordCoverage([i \in DOMAIN cs |-> [chunk |-> cs[i]]],
                                              keywords)]]

\* What _hybrid_retrieval returns for its list top_chunks
HybridResult(top_chunks, keywords, cs) ==
    [top |-> top_chunks,
     result |->
        [enhanced_context |-> CombineChunksWithContext(top_chunks),
         strategy |-> "hybrid",
         chunks_analyzed |-> Len(cs),
         top_chunks |-> Len(top_chunks),
         average_score |-> Average([i \in DOMAIN top_chunks |-> top_chunks[i].score]),
         keyword_coverage |-> KeywordCoverage(top_chunks, keywords)]]

\* _hybrid_retrieval without the sort: the first candidates in their input
\* order
HybridRankingUnsorted(q, cs, keywords) ==
    HybridResult(TakeTop([i \in 1..Len(cs) |-> ScoredChunk(q, cs, keywords, i)],
                         HybridTopK),
                 keywords, cs)

\* _hybrid_retrieval behind the extraction of the keywords of the query
HybridRanking(q, cs, keywords) ==
    HybridResult(TakeTop(SortDesc("score",
                                  [i \in 1..Len(cs) |-> ScoredChunk(q, cs, keywords, i)]),
                         HybridTopK),
                 keywords, cs)

\* _hybrid_retrieval
HybridRetrieval(q, cs) == HybridRanking(q, cs, ExtractKeywords(q))

\* The entry _rerank_retrieval appends for the candidate at position n
RerankedChunk(chunk, n, relevance_score, quality_score, diversity_score) ==
    [chunk |-> chunk,
     score |-> RAdd(RAdd(RMul(relevance_score, Rat(5, 10)),
                         RMul(quality_score, Rat(3, 10))),
                    RMul(diversity_score, Rat(2, 10))),
     relevance |-> relevance_score,
     quality |-> quality_score,
     diversity |-> diversity_score,
     index |-> n - 1,
     pos |-> n]

\* One turn of the loop of _rerank_retrieval: the diversity of the candidate
\* is taken against reranked_chunks, the entries of all candidates before it
RerankStep(q, cs, n, reranked_chunks) ==
    Append(reranked_chunks,
           RerankedChunk(cs[n], n, RelevanceScore(cs[n], q), QualityScore(cs[n]),
                         DiversityScore(cs[n], reranked_chunks)))

RECURSIVE RerankedChunks(_, _, _)
\* The list reranked_chunks after the first n candidates
RerankedChunks(q, cs, n) ==
    IF n = 0 THEN <<>> ELSE RerankStep(q, cs, n, RerankedChunks(q, cs, n - 1))

\* What _rerank_retrieval returns for its list top_chunks
RerankResult(top_chunks, cs) ==
    [top |-> top_chunks,
     result |->
        [enhanced_context |-> CreateStructuredContext(top_chunks),
         strategy |-> "rerank",
         chunks_analyzed |-> Len(cs),
         top_chunks |-> Len(top_chunks),
         ranking_metrics |->
            [avg_relevance |-> Average([i \in DOMAIN top_chunks |-> top_chunks[i].relevance]),
             avg_quality   |-> Average([i \in DOMAIN top_chunks |-> top_chunks[i].quality]),
             avg_diversity |-> Average([i \in DOMAIN top_chunks |-> top_chunks[i].diversity])]]]

\* _rerank_retrieval
RerankRetrieval(q, cs) ==
    RerankResult(TakeTop(SortDesc("score", RerankedChunks(q, cs, Len(cs))), RerankTopK), cs)

\* The update without the comparison: every variation replaces the best one
BetterOfLast(best, score, variation) == [score |-> score, best_match |-> variation]

\* if score > max_score: the variation replaces the best one only when it
\* scores strictly higher
BetterOf(best, score, variation) ==
    IF RLess(best.score, score) THEN [score |-> score, best_match |-> variation] ELSE best

RECURSIVE BestVariation(_, _, _, _)
\* The inner loop of _multi_query_expansion from variation i on
BestVariation(chunk, variations, i, best) ==
    IF i > Len(variations) THEN best
    ELSE BestVariation(chunk, variations, i + 1,
                       BetterOf(best, SimilarityScore(chunk, variations[i]), variations[i]))

\* chunk_scores[chunk] = {...}: a text met again keeps its place in the
\* dictionary and only has its value set anew
SetChunkScore(chunk_scores, chunk, best, n) ==
    LET same == {j \in DOMAIN chunk_scores : chunk_scores[j].chunk = chunk}
    IN  IF same = {}
        THEN Append(chunk_scores,
                    [chunk |-> chunk, score |-> best.score,
                     best_match |-> best.best_match, pos |-> n])
        ELSE [j \in DOMAIN chunk_scores |->
                IF j \in same
                THEN [chunk_scores[j] EXCEPT !.score = best.score,
                                             !.best_match = best.best_match]
                ELSE chunk_scores[j]]

RECURSIVE ChunkScores(_, _, _, _)
\* The dictionary chunk_scores after the first n candidates, as the list of
\* its items
ChunkScores(q, cs, variations, n) ==
    IF n = 0 THEN <<>>
    ELSE SetChunkScore(ChunkScores(q, cs, variations, n - 1), cs[n],
                       BestVariation(cs[n], variations, 1,
                                     [score |-> Zero, best_match |-> q]),
                       n)

\* variation_coverage taken for the number of variations generated
VariationCoverageOfList(top_chunks, query_variations) == Len(query_variations)

\* len(set(c[1]['best_match'] for c in top_chunks))
VariationCoverage(top_chunks, query_variations) ==
    Cardinality({top_chunks[i].best_match : i \in DOMAIN top_chunks})

\* What _multi_query_expansion would return with chunks_analyzed taken from
\* the dictionary chunk_scores, one key for each distinct text
MultiQueryResultOfKeys(top_chunks, query_variations, cs) ==
    [top |-> top_chunks,
     result |->
        [enhanced_context |-> CreateContextWithVariations(top_chunks),
         strategy |-> "multi_query",
         query_variations |-> query_variations,
         chunks_analyzed |-> Cardinality(Range(cs)),
         top_chunks |-> Len(top_chunks),
         variation_coverage |-> VariationCoverage(top_chunks, query_variations)]]

\* What _multi_query_expansion returns for its list top_chunks
MultiQueryResult(top_chunks, query_variations, cs) ==
    [top |-> top_chunks,
     result |->
        [enhanced_context |-> CreateContextWithVariations(top_chunks),
         strategy |-> "multi_query",
         query_variations |-> query_variations,
         chunks_analyzed |-> Len(cs),
         top_chunks |-> Len(top_chunks),
         variation_coverage |-> VariationCoverage(top_chunks, query_variations)]]

\* _multi_query_expansion behind the generation of the variations
MultiQueryRanking(q, cs, query_variations) ==
    MultiQueryResult(TakeTop(SortDesc("score",
                                      ChunkScores(q, cs, query_variations, Len(cs))),
                             MultiQueryTopK),
                     query_variations, cs)

\* _generate_query_variations with the final list(set(...)) left out: the
\* rewrites as they were collected
QueryVariationsCollected(q, h) == QueryVariationList(q)

\* _generate_query_variations: the list it returns, h the iteration order of
\* the set of variations
QueryVariations(q, h) == ListOfSet(GenerateQueryVariations(q), h)

\* _multi_query_expansion
MultiQueryExpansion(q, cs, h) == MultiQueryRanking(q, cs, QueryVariations(q, h))

\* The relevance threshold of _semantic_filtering, in tenths
OverlapThresholdTenths == 3

RECURSIVE FilteredChunksKeepAll(_, _, _, _)
\* The list of every candidate with its overlap, none filtered out
FilteredChunksKeepAll(query_concepts, cs, h, n) ==
    IF n = 0 THEN <<>>
    ELSE Append(FilteredChunksKeepAll(query_concepts, cs, h, n - 1),
                [chunk |-> cs[n],
                 semantic_overlap |-> ConceptOverlap(query_concepts, ConceptsOf(cs[n])),
                 concepts |-> ListOfSet(ConceptsOf(cs[n]), h),
                 pos |-> n])

\* One turn of the loop of _semantic_filtering for the candidate at position n
FilterStep(filtered_chunks, query_concepts, chunk, chunk_concepts, h, n) ==
    LET semantic_overlap == ConceptOverlap(query_concepts, chunk_concepts)
    IN  IF RLess(Rat(OverlapThresholdTenths, 10), semantic_overlap)
        THEN Append(filtered_chunks,
                    [chunk |-> chunk,
                     semantic_overlap |-> semantic_overlap,
                     concepts |-> ListOfSet(chunk_concepts, h),
                     pos |-> n])
        ELSE filtered_chunks

RECURSIVE FilteredChunks(_, _, _, _)
\* The list filtered_chunks after the first n candidates
FilteredChunks(query_concepts, cs, h, n) ==
    IF n = 0 THEN <<>>
    ELSE FilterStep(FilteredChunks(query_concepts, cs, h, n - 1), query_concepts,
                    cs[n], ConceptsOf(cs[n]), h, n)

\* What _semantic_filtering returns for its list top_chunks
SemanticResult(top_chunks, filtered_chunks, query_concepts, cs, h) ==
    [top |-> top_chunks,
     result |->
        [enhanced_context |-> CreateSemanticContext(top_chunks),
         strategy |-> "semantic_filter",
         query_concepts |-> ListOfSet(query_concepts, h),
         chunks_analyzed |-> Len(cs),
         filtered_chunks |-> Len(filtered_chunks),
         top_chunks |-> Len(top_chunks),
         avg_semantic_overlap |->
            Average([i \in DOMAIN top_chunks |-> top_chunks[i].semantic_overlap])]]

\* _semantic_filtering behind its loop
SemanticSelection(filtered_chunks, query_concepts, cs, h) ==
    SemanticResult(TakeTop(SortDesc("semantic_overlap", filtered_chunks), SemanticTopK),
                   filtered_chunks, query_concepts, cs, h)

\* _semantic_filtering behind the extraction of the concepts of the query
SemanticRanking(query_concepts, cs, h) ==
    SemanticSelection(FilteredChunks(query_concepts, cs, h, Len(cs)), query_concepts, cs, h)

\* _semantic_filtering, h the iteration order of the concept strings
SemanticFiltering(q, cs, h) == SemanticRanking(ConceptsOf(q), cs, h)

-----------------------------------------------------------------------------
(* Strategy dispatcher                                                     *)

\* The keys of self.retrieval_strategies
RetrievalStrategies == {"hybrid", "rerank", "multi_query", "semantic_filter"}

\* The default of the strategy parameter of get_enhanced_context
DefaultStrategy == "hybrid"

\* A lookup that falls back to the rerank strategy
ResolveStrategyToRerank(s) == IF s \notin RetrievalStrategies THEN "rerank" ELSE s

\* The name get_enhanced_context looks up in the table
ResolveStrategy(s) == IF s \notin RetrievalStrategies THEN "hybrid" ELSE s

\* The concepts _semantic_filtering turns into lists: those of the query and
\* of the candidates that pass the filter
HashedConcepts(query_concepts, concepts) ==
    query_concepts \cup
    UNION {concepts[i] :
             i \in {j \in DOMAIN concepts :
                      RLess(Rat(OverlapThresholdTenths, 10),
                            ConceptOverlap(query_concepts, concepts[j]))}}

\* The strings whose set iteration order the strategy depends on
HashedStrings(name, q, cs) ==
    IF name = "multi_query" THEN GenerateQueryVariations(q)
    ELSE IF name = "semantic_filter"
    THEN HashedConcepts(ConceptsOf(q), [i \in DOMAIN cs |-> ConceptsOf(cs[i])])
    ELSE {}

\* The table __init__ builds
StrategyTable ==
    [hybrid |-> "_hybrid_retrieval",
     rerank |-> "_rerank_retrieval",
     multi_query |-> "_multi_query_expansion",
     semantic_filter |-> "_semantic_filtering"]

\* The bound method called on the query and the candidates
CallMethod(method, q, cs, h) ==
    CASE method = "_hybrid_retrieval" -> HybridRetrieval(q, cs)
      [] method = "_rerank_retrieval" -> RerankRetrieval(q, cs)
      [] method = "_multi_query_expansion" -> MultiQueryExpansion(q, cs, h)
      [] method = "_semantic_filtering" -> SemanticFiltering(q, cs, h)

\* self.retrieval_strategies[name](query, chunks)
RunStrategy(name, q, cs, h) ==
    CASE name = "hybrid" -> HybridRetrieval(q, cs)
      [] name = "rerank" -> RerankRetrieval(q, cs)
      [] name = "multi_query" -> MultiQueryExpansion(q, cs, h)
      [] name = "semantic_filter" -> SemanticFiltering(q, cs, h)

-----------------------------------------------------------------------------
(* Inputs of the scorers when they are called on their own                 *)

RECURSIVE Concats(_, _)
\* Every concatenation of at most n strings of pieces
Concats(pieces, n) ==
    IF n = 0 THEN {""}
    ELSE LET shorter == Concats(pieces, n - 1)
         IN  shorter \cup {p \o t : p \in pieces, t \in shorter}

RECURSIVE Orderings(_)
\* The lists that hold each element of the finite set S once, in some order:
\* what list(set(...)) may return
Orderings(S) ==
    IF S = {} THEN {<<>>}
    ELSE UNION {{<<x>> \o rest : rest \in Orderings(S \ {x})} : x \in S}

MaxSimPieces == 2
SimPieces == {"a", "A ", "b", " ", "?"}
SimTexts == Concats(SimPieces, MaxSimPieces)

MaxKwPieces == 3
KwPieces == {"The ", "filter ", "is", " fuss,", "On."}
KwTexts == Concats(KwPieces, MaxKwPieces)

MaxKwCalls == 2

NoResult == [strategy |-> "none"]

\* The threads that call the engine at the same time
Threads == {1, 2}

\* The frame of a thread that is in no call
IdleFrame ==
    [pc |-> "idle", query |-> "", given |-> "none", strategy |-> "none",
     enhanced_result |-> NoResult]

\* The instance after __init__, no thread in a call
Constructed ==
    /\ retrieval_strategies = StrategyTable
    /\ frames = [t \in Threads |-> IdleFrame]

\* The names set_prompt_style accepts
PromptStyles == {"basic", "detailed", "step_by_step", "troubleshooting"}

\* The QAEngine after __init__, which holds the one AdvancedRetrieval
\* instance of the program, in a session that has asked nothing
QAEngineConstructed ==
    /\ Constructed
    /\ retrieval_strategy = "hybrid"
    /\ prompt_style = "detailed"
    /\ use_enhanced_context = TRUE
    /\ use_chain_of_thought = FALSE
    /\ query_metadata = <<>>
    /\ asked = [completed |-> 0, failed |-> 0]
    /\ reply = [kind |-> "none"]

EngineIdle ==
    /\ query = ""
    /\ chunks = <<>>
    /\ strategy = "none"
    /\ result = NoResult
    /\ selected = <<>>
    /\ pc = "idle"
    /\ QAEngineConstructed

\* ---- the similarity scorer called on two texts, in both argument orders
SimInit ==
    /\ EngineIdle
    /\ text1 \in SimTexts
    /\ text2 \in SimTexts
    /\ simlog = {}
    /\ kwlog = <<>>
    /\ varlog = <<>>

CalcSimilarity(a, b) ==
    /\ \A r \in simlog : ~(r.a = a /\ r.b = b)
    /\ simlog' = simlog \cup {[a |-> a, b |-> b, val |-> SimilarityScore(a, b)]}
    /\ UNCHANGED <<text1, text2, kwlog, varlog>>
    /\ UNCHANGED engineVars
    /\ UNCHANGED threadVars
    /\ UNCHANGED qaVars

SimNext ==
    \/ CalcSimilarity(text1, text2)
    \/ CalcSimilarity(text2, text1)

SimSpec == SimInit /\ [][SimNext]_vars

\* ---- the keyword extractor called on a text and then on its own output
KwInit ==
    /\ EngineIdle
    /\ text1 \in KwTexts
    /\ text2 = ""
    /\ simlog = {}
    /\ kwlog = <<>>
    /\ varlog = <<>>

\* extract_keywords(text1)
ExtractCall ==
    /\ kwlog = <<>>
    /\ kwlog' = <<[text |-> text1, keywords |-> ExtractKeywords(text1)]>>
    /\ UNCHANGED <<text1, text2, simlog, varlog>>
    /\ UNCHANGED engineVars
    /\ UNCHANGED threadVars
    /\ UNCHANGED qaVars

\* extract_keywords(" ".join(k)) for the list k an earlier call returned
ReExtractCall ==
    /\ kwlog # <<>>
    /\ Len(kwlog) < MaxKwCalls
    /\ \E k \in Orderings(kwlog[Len(kwlog)].keywords) :
          LET joined == JoinWith(k, " ")
          IN  kwlog' = Append(kwlog, [text |-> joined,
                                      keywords |-> ExtractKeywords(joined)])
    /\ UNCHANGED <<text1, text2, simlog, varlog>>
    /\ UNCHANGED engineVars
    /\ UNCHANGED threadVars
    /\ UNCHANGED qaVars

KwNext ==
    \/ ExtractCall
    \/ ReExtractCall

KwSpec == KwInit /\ [][KwNext]_vars

\* ---- the query expander called on a query
MaxExpandPieces == 2
ExpandPieces ==
    {"how ", "How ", "what is ", "What is ", "error", "Error ", "issue ", "problem?"}
ExpandTexts == Concats(ExpandPieces, MaxExpandPieces)

ExpandInit ==
    /\ EngineIdle
    /\ text1 \in ExpandTexts
    /\ text2 = ""
    /\ simlog = {}
    /\ kwlog = <<>>
    /\ varlog = <<>>

\* generate_query_variations(text1)
GenerateCall ==
    /\ varlog = <<>>
    /\ \E h \in Orderings(GenerateQueryVariations(text1)) :
          varlog' = <<[query |-> text1, variations |-> QueryVariations(text1, h)]>>
    /\ UNCHANGED <<text1, text2, simlog, kwlog>>
    /\ UNCHANGED engineVars
    /\ UNCHANGED threadVars
    /\ UNCHANGED qaVars

ExpandSpec == ExpandInit /\ [][GenerateCall]_vars

-----------------------------------------------------------------------------
(* The engine called by a caller that holds a query and a candidate list   *)

\* Strategy names a caller passes that are no key of the table
UnknownStrategies == {"foo", "Hybrid"}

\* What the caller's record of the call holds when it passed no strategy
Omitted == "(omitted)"

ScorersIdle ==
    /\ text1 = ""
    /\ text2 = ""
    /\ simlog = {}
    /\ kwlog = <<>>
    /\ varlog = <<>>

\* The most candidates the caller hands over
MaxChunks == 6

\* The most candidates a caller of the corner cases hands over
MaxCaseChunks == 5

\* The most candidates handed over with query q
ChunkLimit(q) == IF q \in CaseQueries THEN MaxCaseChunks ELSE MaxChunks

Init ==
    /\ query \in Queries
    /\ chunks = <<>>
    /\ strategy = "none"
    /\ result = NoResult
    /\ selected = <<>>
    /\ pc = "input"
    /\ ScorersIdle
    /\ QAEngineConstructed

\* The caller receives one more passage from the retriever
AppendChunk(t) ==
    /\ pc = "input"
    /\ Len(chunks) < ChunkLimit(query)
    /\ chunks' = Append(chunks, t)
    /\ UNCHANGED <<query, strategy, result, selected, pc>>
    /\ UNCHANGED scorerVars
    /\ UNCHANGED threadVars
    /\ UNCHANGED qaVars

\* The strategy parameter of a call made with s; Omitted stands for a call
\* that leaves the parameter to its default
StrategyParameter(s) == IF s = Omitted THEN DefaultStrategy ELSE s

\* return enhanced_result
Return(enhanced_result) ==
    /\ result' = enhanced_result.result
    /\ selected' = enhanced_result.top

\* enhanced_result = self.retrieval_strategies[name](query, chunks)
ApplyStrategy(name) ==
    \E h \in Orderings(HashedStrings(name, query, chunks)) :
        Return(RunStrategy(name, query, chunks, h))

\* get_enhanced_context(query, chunks, s), and get_enhanced_context(query,
\* chunks) for s = Omitted
GetEnhancedContext(s) ==
    /\ pc = "input"
    /\ ApplyStrategy(ResolveStrategy(StrategyParameter(s)))
    /\ strategy' = s
    /\ pc' = "returned"
    /\ UNCHANGED <<query, chunks>>
    /\ UNCHANGED scorerVars
    /\ UNCHANGED threadVars
    /\ UNCHANGED qaVars

\* The caller is done with the result and holds its arguments again
Continue ==
    /\ pc = "returned"
    /\ pc' = "input"
    /\ result' = NoResult
    /\ selected' = <<>>
    /\ strategy' = "none"
    /\ UNCHANGED <<query, chunks>>
    /\ UNCHANGED scorerVars
    /\ UNCHANGED threadVars
    /\ UNCHANGED qaVars

Next ==
    \/ \E t \in Retrieved(query) : AppendChunk(t)
    \/ \E s \in RetrievalStrategies \cup UnknownStrategies \cup {Omitted} :
          GetEnhancedContext(s)
    \/ Continue

Spec == Init /\ [][Next]_vars

\* The same engine called by the callers of the corner cases
CaseInit ==
    /\ query \in CaseQueries
    /\ chunks = <<>>
    /\ strategy = "none"
    /\ result = NoResult
    /\ selected = <<>>
    /\ pc = "input"
    /\ ScorersIdle
    /\ QAEngineConstructed

CaseSpec == CaseInit /\ [][Next]_vars

-----------------------------------------------------------------------------
(* Two threads that call get_enhanced_context on one instance, with the    *)
(* query and the candidate list of one caller                              *)

\* The longest candidate list the threads are called with
MaxSharedChunks == 2

RECURSIVE ListsOver(_, _)
\* The lists of at most n texts of the set
ListsOver(texts, n) ==
    IF n = 0 THEN {<<>>}
    ELSE LET shorter == ListsOver(texts, n - 1)
         IN  shorter \cup {Append(l, t) : l \in shorter, t \in texts}

ThreadsInit ==
    /\ query \in Queries
    /\ chunks \in ListsOver(Retrieved(query), MaxSharedChunks)
    /\ strategy = "none"
    /\ result = NoResult
    /\ selected = <<>>
    /\ pc = "threads"
    /\ ScorersIdle
    /\ QAEngineConstructed

\* Thread t enters get_enhanced_context(query, chunks, s): the parameters
\* are bound in its frame
Call(t, s) ==
    /\ pc = "threads"
    /\ frames[t].pc \in {"idle", "returned"}
    /\ frames' = [frames EXCEPT ![t] =
                     [pc |-> "check", query |-> query, given |-> s,
                      strategy |-> StrategyParameter(s), enhanced_result |-> NoResult]]
    /\ UNCHANGED retrieval_strategies
    /\ UNCHANGED engineVars
    /\ UNCHANGED scorerVars
    /\ UNCHANGED qaVars

\* The check with the fallback kept in the table: an unknown name is entered
\* as one more key of the hybrid method
CheckStrategyStoring(t) ==
    /\ frames[t].pc = "check"
    /\ frames' = [frames EXCEPT ![t].pc = "apply"]
    /\ retrieval_strategies' =
          [n \in DOMAIN retrieval_strategies \cup {frames[t].strategy} |->
              IF n \in DOMAIN retrieval_strategies
              THEN retrieval_strategies[n] ELSE "_hybrid_retrieval"]
    /\ UNCHANGED engineVars
    /\ UNCHANGED scorerVars
    /\ UNCHANGED qaVars

\* if strategy not in self.retrieval_strategies: strategy = 'hybrid'
CheckStrategy(t) ==
    /\ frames[t].pc = "check"
    /\ frames' = [frames EXCEPT ![t].pc = "apply",
                                ![t].strategy = IF @ \notin DOMAIN retrieval_strategies
                                                THEN "hybrid" ELSE @]
    /\ UNCHANGED retrieval_strategies
    /\ UNCHANGED engineVars
    /\ UNCHANGED scorerVars
    /\ UNCHANGED qaVars

\* The local enhanced_result of thread t is bound
Bind(t, enhanced_result) ==
    frames' = [frames EXCEPT ![t].pc = "return",
                             ![t].enhanced_result = enhanced_result.result]

\* enhanced_result = self.retrieval_strategies[strategy](query, chunks)
Apply(t) ==
    /\ frames[t].pc = "apply"
    /\ \E h \in Orderings(HashedStrings(frames[t].strategy, frames[t].query, chunks)) :
          Bind(t, CallMethod(retrieval_strategies[frames[t].strategy],
                             frames[t].query, chunks, h))
    /\ UNCHANGED retrieval_strategies
    /\ UNCHANGED engineVars
    /\ UNCHANGED scorerVars
    /\ UNCHANGED qaVars

\* return enhanced_result
ReturnResult(t) ==
    /\ frames[t].pc = "return"
    /\ frames' = [frames EXCEPT ![t].pc = "returned"]
    /\ UNCHANGED retrieval_strategies
    /\ UNCHANGED engineVars
    /\ UNCHANGED scorerVars
    /\ UNCHANGED qaVars

ThreadsNext ==
    \E t \in Threads :
        \/ \E s \in RetrievalStrategies \cup UnknownStrategies \cup {Omitted} : Call(t, s)
        \/ CheckStrategy(t)
        \/ Apply(t)
        \/ ReturnResult(t)

ThreadsSpec == ThreadsInit /\ [][ThreadsNext]_vars

-----------------------------------------------------------------------------
(* The question-answering engine (src/core/qa_engine.py, class QAEngine):  *)
(* its settings, ask and the query log kept in the session state.  The     *)
(* vector store holds a fixed collection, so every call of                  *)
(* get_similar_chunks(query) returns the list chunks.                       *)

\* The most calls of ask in a session
MaxAsks == 3

\* The longest list get_similar_chunks returns for the question of a session
MaxAskChunks == 1

\* The strings the callers hand to the two setters: every accepted name of
\* either setter and names neither accepts
SetterInputs == RetrievalStrategies \cup PromptStyles \cup {"", "Hybrid", "unknown"}

QaInit ==
    /\ query = "problem?"
    /\ chunks \in ListsOver(Retrieved(query), MaxAskChunks)
    /\ strategy = "none"
    /\ result = NoResult
    /\ selected = <<>>
    /\ pc = "session"
    /\ ScorersIdle
    /\ QAEngineConstructed

\* set_retrieval_strategy(s) that stores every name it is given
SetRetrievalStrategyUnchecked(s) ==
    /\ pc = "session"
    /\ retrieval_strategy' = s
    /\ UNCHANGED <<prompt_style, use_enhanced_context, use_chain_of_thought,
                   query_metadata, asked, reply>>
    /\ UNCHANGED <<engineVars, scorerVars, threadVars>>

\* set_retrieval_strategy(s)
SetRetrievalStrategy(s) ==
    /\ pc = "session"
    /\ retrieval_strategy' = IF s \in {"hybrid", "rerank", "multi_query", "semantic_filter"}
                             THEN s ELSE retrieval_strategy
    /\ UNCHANGED <<prompt_style, use_enhanced_context, use_chain_of_thought,
                   query_metadata, asked, reply>>
    /\ UNCHANGED <<engineVars, scorerVars, threadVars>>

\* set_prompt_style(s)
SetPromptStyle(s) ==
    /\ pc = "session"
    /\ prompt_style' = IF s \in PromptStyles THEN s ELSE prompt_style
    /\ UNCHANGED <<retrieval_strategy, use_enhanced_context, use_chain_of_thought,
                   query_metadata, asked, reply>>
    /\ UNCHANGED <<engineVars, scorerVars, threadVars>>

\* toggle_enhanced_context(enabled)
ToggleEnhancedContext(enabled) ==
    /\ pc = "session"
    /\ use_enhanced_context' = enabled
    /\ UNCHANGED <<retrieval_strategy, prompt_style, use_chain_of_thought,
                   query_metadata, asked, reply>>
    /\ UNCHANGED <<engineVars, scorerVars, threadVars>>

\* toggle_chain_of_thought(enabled)
ToggleChainOfThought(enabled) ==
    /\ pc = "session"
    /\ use_chain_of_thought' = enabled
    /\ UNCHANGED <<retrieval_strategy, prompt_style, use_enhanced_context,
                   query_metadata, asked, reply>>
    /\ UNCHANGED <<engineVars, scorerVars, threadVars>>

\* d.get(key, default) of a dictionary d
DictGet(d, key, default) == IF key \in DOMAIN d THEN d[key] ELSE default

\* _store_query_metadata(question, answer, retrieval_metadata, prompt_data):
\* the record appended to the list of the session state, which is created
\* when absent.  The fields answer, query_type and timestamp are left out.
StoreQueryMetadata(question, retrieval_metadata, prompt_data) ==
    query_metadata' = Append(query_metadata,
        [question         |-> question,
         retrieval_strategy |-> DictGet(retrieval_metadata, "strategy", "unknown"),
         prompt_style     |-> DictGet(prompt_data, "style", "unknown"),
         chunks_analyzed  |-> DictGet(retrieval_metadata, "chunks_analyzed", 0),
         top_chunks       |-> DictGet(retrieval_metadata, "top_chunks", 0)])

\* ask(query) that stores its record before the response is generated
AskStoringFirst(answered) ==
    /\ pc = "session"
    /\ asked.completed + asked.failed < MaxAsks
    /\ \E h \in Orderings(HashedStrings(ResolveStrategy(retrieval_strategy), query, chunks)) :
          StoreQueryMetadata(query,
              IF use_enhanced_context
              THEN RunStrategy(ResolveStrategy(retrieval_strategy), query, chunks, h).result
              ELSE <<>>,
              IF use_chain_of_thought
              THEN [reasoning_style |-> "chain_of_thought"]
              ELSE [style |-> prompt_style])
    /\ reply' = [kind |-> IF answered THEN "answer" ELSE "sorry"]
    /\ asked' = IF answered THEN [asked EXCEPT !.completed = @ + 1]
                            ELSE [asked EXCEPT !.failed = @ + 1]
    /\ UNCHANGED <<retrieval_strategy, prompt_style, use_enhanced_context,
                   use_chain_of_thought>>
    /\ UNCHANGED <<engineVars, scorerVars, threadVars>>

\* ask(query).  answered is false when a step inside the try block raises:
\* the retrieval, the prompt, the response of the language model or its
\* translation; the handler then returns the apology.  Step 6, the last one
\* before the return, stores the record.
Ask(answered) ==
    /\ pc = "session"
    /\ asked.completed + asked.failed < MaxAsks
    /\ IF answered
       THEN /\ \E h \in Orderings(HashedStrings(ResolveStrategy(retrieval_strategy),
                                                query, chunks)) :
                  StoreQueryMetadata(query,
                      IF use_enhanced_context
                      THEN RunStrategy(ResolveStrategy(retrieval_strategy),
                                       query, chunks, h).result
                      ELSE <<>>,
                      IF use_chain_of_thought
                      THEN [reasoning_style |-> "chain_of_thought"]
                      ELSE [style |-> prompt_style])
            /\ reply' = [kind |-> "answer"]
            /\ asked' = [asked EXCEPT !.completed = @ + 1]
       ELSE /\ reply' = [kind |-> "sorry"]
            /\ asked' = [asked EXCEPT !.failed = @ + 1]
            /\ UNCHANGED query_metadata
    /\ UNCHANGED <<retrieval_strategy, prompt_style, use_enhanced_context,
                   use_chain_of_thought>>
    /\ UNCHANGED <<engineVars, scorerVars, threadVars>>

RECURSIVE SumChunksAnalyzed(_, _)
\* sum(q.get('chunks_analyzed', 0) for q in recent_queries) from position i on
SumChunksAnalyzed(recent_queries, i) ==
    IF i > Len(recent_queries) THEN 0
    ELSE recent_queries[i].chunks_analyzed + SumChunksAnalyzed(recent_queries, i + 1)

\* get_performance_metrics().  ok is false when the count of the collection
\* raises: the handler then returns the empty dictionary.  total_chunks, the
\* size of the collection, is left out of the report.
GetPerformanceMetrics(ok) ==
    /\ pc = "session"
    /\ reply' =
          IF ok
          THEN LET total_queries == Len(query_metadata)
                   sum   == SumChunksAnalyzed(query_metadata, 1)
                   q     == IF total_queries = 0 THEN 0 ELSE (sum * 100) \div total_queries
                   rem   == IF total_queries = 0 THEN 0 ELSE (sum * 100) % total_queries
                   cents == IF 2 * rem > total_queries
                               \/ (2 * rem = total_queries /\ q % 2 = 1)
                            THEN q + 1 ELSE q
               IN  [kind |-> "metrics",
                    total_queries |-> total_queries,
                    avg_chunks_analyzed |-> Rat(cents, 100),
                    strategy_usage |->
                        [s \in {query_metadata[i].retrieval_strategy :
                                   i \in DOMAIN query_metadata} |->
                            Cardinality({i \in DOMAIN query_metadata :
                                            query_metadata[i].retrieval_strategy = s})],
                    current_strategy |-> retrieval_strategy,
                    current_prompt_style |-> prompt_style,
                    enhanced_context_enabled |-> use_enhanced_context,
                    chain_of_thought_enabled |-> use_chain_of_thought]
          ELSE [kind |-> "empty"]
    /\ UNCHANGED <<retrieval_strategy, prompt_style, use_enhanced_context,
                   use_chain_of_thought, query_metadata, asked>>
    /\ UNCHANGED <<engineVars, scorerVars, threadVars>>

\* A session that changes the settings and reads the report
SettingsNext ==
    \/ \E s \in SetterInputs : SetRetrievalStrategy(s)
    \/ \E s \in SetterInputs : SetPromptStyle(s)
    \/ \E enabled \in BOOLEAN : ToggleEnhancedContext(enabled)
    \/ \E enabled \in BOOLEAN : ToggleChainOfThought(enabled)
    \/ \E ok \in BOOLEAN : GetPerformanceMetrics(ok)

SettingsSpec == QaInit /\ [][SettingsNext]_vars

\* A session that asks its question under the retrieval settings it chooses
AskNext ==
    \/ \E s \in SetterInputs : SetRetrievalStrategy(s)
    \/ \E enabled \in BOOLEAN : ToggleEnhancedContext(enabled)
    \/ \E answered \in BOOLEAN : Ask(answered)
    \/ \E ok \in BOOLEAN : GetPerformanceMetrics(ok)

AskSpec == QaInit /\ [][AskNext]_vars

-----------------------------------------------------------------------------
(* C1 .. C6, C9: the selection of the ranking strategies                   *)

Returned == pc = "returned"

\* The strategy that ran
Ran == result.strategy

TopKOf(name) ==
    CASE name = "hybrid" -> HybridTopK
      [] name = "rerank" -> RerankTopK
      [] name = "multi_query" -> MultiQueryTopK
      [] name = "semantic_filter" -> SemanticTopK

OverlapThreshold == Rat(OverlapThresholdTenths, 10)

\* The concept overlap of the candidate at position p with the query
CandidateOverlap(p) == ConceptOverlap(ConceptsOf(query), ConceptsOf(chunks[p]))

\* The primary score the strategy that ran gives the candidate at position p
CandidatePrimary(p) ==
    CASE Ran = "hybrid" -> HybridScore(chunks[p], query, ExtractKeywords(query))
      [] Ran = "rerank" -> RerankedChunks(query, chunks, Len(chunks))[p].score
      [] Ran = "multi_query" ->
            BestVariation(chunks[p], result.query_variations, 1,
                          [score |-> Zero, best_match |-> query]).score
      [] Ran = "semantic_filter" -> CandidateOverlap(p)

\* The candidates the strategy that ran ranks: all of them, or for
\* semantic_filter those that pass the overlap filter
EligiblePositions ==
    IF Ran = "semantic_filter"
    THEN {p \in DOMAIN chunks : RLess(OverlapThreshold, CandidateOverlap(p))}
    ELSE DOMAIN chunks

EntryPrimary(e) == IF Ran = "semantic_filter" THEN e.semantic_overlap ELSE e.score

SelectedPositions == {selected[i].pos : i \in DOMAIN selected}

\* The rank of the selected candidate at position p
RankOf(p) == CHOOSE i \in DOMAIN selected : selected[i].pos = p

\* The number of section headers in a rendered context
SectionCount(ctx) ==
    Cardinality({i \in 1..(Len(ctx) - 8) : SubSeq(ctx, i, i + 8) = "[Section "})

\* C1 as stated: the number of selected passages (top_chunks, and the number
\* of rendered sections) is min(K, number of eligible candidates), every list
\* position counted, also two positions that hold the same text.
C1_SelectedCount ==
    Returned =>
        LET want == Min(TopKOf(Ran), Cardinality(EligiblePositions))
        IN  /\ result.top_chunks = want
            /\ Len(selected) = want
            /\ SectionCount(result.enhanced_context) = want

\* C2: every passage semantic_filter selects has a concept overlap with the
\* query of at least 0.3, and no candidate below 0.3 is a section of the
\* context.
C2_SemanticFilterThreshold ==
    (Returned /\ Ran = "semantic_filter") =>
        /\ \A i \in DOMAIN selected :
              /\ selected[i].chunk = chunks[selected[i].pos]
              /\ selected[i].semantic_overlap = CandidateOverlap(selected[i].pos)
              /\ RLeq(OverlapThreshold, selected[i].semantic_overlap)
        /\ \A p \in DOMAIN chunks :
              (RLess(CandidateOverlap(p), OverlapThreshold) /\ chunks[p] # "")
                  => ~StrContains(result.enhanced_context, "]\n" \o chunks[p])

C2_Witness ==
    /\ Returned /\ Ran = "semantic_filter"
    /\ selected # <<>>
    /\ \E p \in DOMAIN chunks :
          RLess(Zero, CandidateOverlap(p)) /\ RLess(CandidateOverlap(p), OverlapThreshold)

\* C3: with a strategy name that is no key of the table, or with none, the
\* call returns what the hybrid strategy returns for the same query and
\* candidates, field by field.
C3_UnknownFallsBackToHybrid ==
    (Returned /\ strategy \notin RetrievalStrategies) =>
        LET hybrid == HybridRetrieval(query, chunks).result
        IN  /\ result = hybrid
            /\ result.strategy = "hybrid"
            /\ result.enhanced_context = hybrid.enhanced_context
            /\ result.chunks_analyzed = hybrid.chunks_analyzed
            /\ result.top_chunks = hybrid.top_chunks
            /\ result.average_score = hybrid.average_score
            /\ result.keyword_coverage = hybrid.keyword_coverage

C3_Witness ==
    /\ Returned
    /\ strategy = "foo"
    /\ Len(chunks) > HybridTopK
    /\ result.top_chunks = HybridTopK
    /\ RLess(Zero, result.keyword_coverage)

\* C4: an empty candidate list gives an empty context, top_chunks = 0,
\* chunks_analyzed = 0 and every aggregate metric 0, whichever strategy runs.
C4_EmptyCandidates ==
    (Returned /\ chunks = <<>>) =>
        /\ result.enhanced_context = ""
        /\ result.top_chunks = 0
        /\ result.chunks_analyzed = 0
        /\ Ran \in RetrievalStrategies
        /\ Ran = "hybrid" =>
              result.average_score = Zero /\ result.keyword_coverage = Zero
        /\ Ran = "rerank" =>
              /\ result.ranking_metrics.avg_relevance = Zero
              /\ result.ranking_metrics.avg_quality = Zero
              /\ result.ranking_metrics.avg_diversity = Zero
        /\ Ran = "multi_query" => result.variation_coverage = 0
        /\ Ran = "semantic_filter" =>
              result.filtered_chunks = 0 /\ result.avg_semantic_overlap = Zero

C4_Witness ==
    /\ Returned
    /\ chunks = <<>>
    /\ Ran = "multi_query"
    /\ Len(result.query_variations) > 1

\* C5 as stated: the selected passages are in non-increasing order of the primary score
\* and no eligible candidate left out scores strictly higher than a selected
\* one.
C5_TopKByPrimaryScore ==
    Returned =>
        /\ \A i \in DOMAIN selected :
              /\ selected[i].pos \in EligiblePositions
              /\ selected[i].chunk = chunks[selected[i].pos]
              /\ EntryPrimary(selected[i]) = CandidatePrimary(selected[i].pos)
        /\ \A i, j \in DOMAIN selected :
              i < j => RLeq(EntryPrimary(selected[j]), EntryPrimary(selected[i]))
        /\ \A p \in EligiblePositions \ SelectedPositions :
              \A i \in DOMAIN selected :
                  RLeq(CandidatePrimary(p), EntryPrimary(selected[i]))

\* C6 as stated: of two eligible passages with equal primary score the one
\* with the lower candidate index is ranked before the other, and it is the
\* one selected when the tie straddles the top-K cut.
C6_TiesByCandidateOrder ==
    Returned =>
        \A p, q \in EligiblePositions :
            (p < q /\ CandidatePrimary(p) = CandidatePrimary(q)
                   /\ q \in SelectedPositions)
                => (p \in SelectedPositions /\ RankOf(p) < RankOf(q))

\* No text occurs at two positions of the candidate list, or the strategy
\* that ran does not key its table by the text
DistinctTexts ==
    Ran # "multi_query" \/ \A p, q \in DOMAIN chunks : chunks[p] = chunks[q] => p = q

\* Away from repeated texts under multi_query the count, the top-K order and
\* the order of ties are as C1, C5 and C6 state them.
SelectedCountOfDistinctTexts == (Returned /\ DistinctTexts) => C1_SelectedCount
TopKOfDistinctTexts == (Returned /\ DistinctTexts) => C5_TopKByPrimaryScore
TiesOfDistinctTexts == (Returned /\ DistinctTexts) => C6_TiesByCandidateOrder

\* C9 as stated: the passage ranked first by rerank has diversity 1.0.
C9_FirstRankedDiversityOne ==
    (Returned /\ Ran = "rerank" /\ chunks # <<>>) => selected[1].diversity = One

-----------------------------------------------------------------------------
(* C7, C8, C10                                                             *)

HasWord(t) == WordSet(t) # {}

\* C7 as stated: similarity(x, x) = 1.0 for every non-empty text x, also one
\* that holds no word token.
C7_SelfSimilarityAnyNonEmpty ==
    \A r \in simlog : (r.a = r.b /\ r.a # "") => r.val = One

\* C7 amended: similarity(x, x) = 1.0 for every text x that holds at least one
\* word token, and 0.0 for a text that holds none.
C7_SelfSimilarity ==
    \A r \in simlog :
        r.a = r.b => r.val = (IF HasWord(r.a) THEN One ELSE Zero)

C7_Witness ==
    /\ text1 = text2
    /\ HasWord(text1)
    /\ StrContains(text1, "?")
    /\ \E r \in simlog : r.a = text1 /\ r.b = text1 /\ r.val = One

\* C8: similarity(x, y) = similarity(y, x) for all texts x and y, also when
\* one or both hold no word token.
C8_Symmetry ==
    \A r1, r2 \in simlog : (r1.a = r2.b /\ r1.b = r2.a) => r1.val = r2.val

C8_Witness ==
    \E r1, r2 \in simlog :
        /\ r1.a = r2.b /\ r1.b = r2.a /\ r1.a # r1.b
        /\ RLess(Zero, r1.val) /\ RLess(r1.val, One)

\* C10: extract_keywords applied to the keywords of t joined by spaces returns
\* the keywords of t.
C10_KeywordsIdempotent ==
    \A i \in 2..Len(kwlog) : kwlog[i].keywords = kwlog[i - 1].keywords

C10_Witness ==
    /\ Len(kwlog) = 2
    /\ Cardinality(kwlog[1].keywords) >= 2
    /\ kwlog[2].text # kwlog[1].text
    /\ \E w \in Range(FindWords(StrLower(kwlog[1].text))) : w \in StopWords

-----------------------------------------------------------------------------
(* C11: the hybrid ranking of a candidate that leads in keywords and in    *)
(* word overlap                                                            *)

\* The number of query keywords each candidate contains
KeywordsFound ==
    LET keywords == ExtractKeywords(query)
    IN  [p \in DOMAIN chunks |-> CountKeywordMatches(chunks[p], keywords)]

\* The word overlap of each candidate with the query
WordOverlap == [p \in DOMAIN chunks |-> SimilarityScore(chunks[p], query)]

\* The length bonus of each candidate
LengthBonus ==
    [p \in DOMAIN chunks |->
        IF LenBonusMin <= Len(chunks[p]) /\ Len(chunks[p]) <= LenBonusMax
        THEN One ELSE Rat(8, 10)]

\* The candidate at p contains strictly more query keywords and has a
\* strictly higher word overlap than every other candidate
Leads(p, found, overlap) ==
    \A o \in DOMAIN chunks \ {p} :
        found[p] > found[o] /\ RLess(overlap[o], overlap[p])

\* No candidate has a higher length bonus than the one at p
TopLengthBonus(p, bonus) == \A o \in DOMAIN chunks : RLeq(bonus[o], bonus[p])

\* The worked example: the first candidate is ranked first, three candidates
\* are analysed and three selected
ExampleOutcome ==
    (query = CaseTexts.ExampleQuery /\ chunks = CaseTexts.ExampleCandidates) =>
        /\ selected[1].pos = 1
        /\ selected[1].chunk = CaseTexts.ExampleCandidates[1]
        /\ result.chunks_analyzed = 3
        /\ result.top_chunks = 3

\* C11 as stated: hybrid gives the worked example its outcome, and ranks first
\* every candidate that contains strictly more query keywords and has a
\* strictly higher word overlap with the query than every other candidate.
C11_LeaderRankedFirst ==
    (Returned /\ Ran = "hybrid") =>
        /\ ExampleOutcome
        /\ \A p \in DOMAIN chunks :
              Leads(p, KeywordsFound, WordOverlap) => selected[1].pos = p

\* C11 amended: hybrid gives the worked example its outcome, and ranks first
\* every candidate that contains strictly more query keywords and has a
\* strictly higher word overlap with the query than every other candidate
\* and whose length bonus is not lower than that of any other candidate.
C11_LeaderOfTopLengthBonusRankedFirst ==
    (Returned /\ Ran = "hybrid") =>
        /\ ExampleOutcome
        /\ \A p \in DOMAIN chunks :
              (Leads(p, KeywordsFound, WordOverlap) /\ TopLengthBonus(p, LengthBonus))
                  => selected[1].pos = p

C11_Witness ==
    /\ Returned /\ Ran = "hybrid"
    /\ query = CaseTexts.ExampleQuery
    /\ Len(chunks) >= 3
    /\ \E p \in DOMAIN chunks :
          p > 1 /\ Leads(p, KeywordsFound, WordOverlap) /\ selected[1].pos = p

-----------------------------------------------------------------------------
(* C12: the range of the scores                                            *)

InUnitInterval(r) == RLeq(Zero, r) /\ RLeq(r, One)

\* The scores _rerank_retrieval attaches to a candidate
RerankScoresInRange(e) ==
    /\ InUnitInterval(e.relevance)
    /\ InUnitInterval(e.quality)
    /\ InUnitInterval(e.diversity)
    /\ InUnitInterval(e.score)

\* Every entry of the list holds scores in [0, 1]
AllRerankScoresInRange(reranked_chunks) ==
    \A i \in DOMAIN reranked_chunks : RerankScoresInRange(reranked_chunks[i])

\* C12: every score a strategy attaches to a candidate, selected or not, lies
\* in [0, 1]: similarity, relevance, diversity, quality, concept overlap, the
\* hybrid and the rerank combined score and the multi_query maximum; so do
\* the averages and the keyword_coverage of the metadata.
C12_ScoresInUnitInterval ==
    Returned =>
        /\ \A i \in DOMAIN selected : InUnitInterval(EntryPrimary(selected[i]))
        /\ \A p \in DOMAIN chunks : InUnitInterval(SimilarityScore(chunks[p], query))
        /\ Ran = "hybrid" =>
              /\ \A p \in DOMAIN chunks :
                    InUnitInterval(HybridScore(chunks[p], query, ExtractKeywords(query)))
              /\ InUnitInterval(result.average_score)
              /\ InUnitInterval(result.keyword_coverage)
        /\ Ran = "rerank" =>
              /\ AllRerankScoresInRange(RerankedChunks(query, chunks, Len(chunks)))
              /\ AllRerankScoresInRange(selected)
              /\ InUnitInterval(result.ranking_metrics.avg_relevance)
              /\ InUnitInterval(result.ranking_metrics.avg_quality)
              /\ InUnitInterval(result.ranking_metrics.avg_diversity)
        /\ Ran = "multi_query" =>
              \A p \in DOMAIN chunks : \A i \in DOMAIN result.query_variations :
                  InUnitInterval(SimilarityScore(chunks[p], result.query_variations[i]))
        /\ Ran = "semantic_filter" =>
              /\ \A p \in DOMAIN chunks : InUnitInterval(CandidateOverlap(p))
              /\ InUnitInterval(result.avg_semantic_overlap)

C12_Witness ==
    /\ Returned /\ Ran = "rerank"
    /\ \E i, j \in DOMAIN selected :
          /\ selected[i].score = One
          /\ selected[i].quality = One
          /\ selected[j].diversity = Zero
          /\ Len(selected[j].chunk) > QualityLen

-----------------------------------------------------------------------------
(* C13: calls on one instance that run at the same time                    *)

\* What get_enhanced_context(q, cs, s) can return when it runs alone
ResultsAlone(name, q, cs) ==
    {RunStrategy(name, q, cs, h).result : h \in Orderings(HashedStrings(name, q, cs))}

\* The call thread t has returned from gave what the same call gives alone
ReturnsAsAlone(t) ==
    frames[t].pc = "returned" =>
        frames[t].enhanced_result \in
            ResultsAlone(ResolveStrategy(StrategyParameter(frames[t].given)),
                         frames[t].query, chunks)

\* C13: however the steps of the calls of two threads interleave, each call
\* returns a result the same call returns when it runs alone, and no step
\* changes the strategy table, the caller's query or its candidate list.
C13_CallsIndependent ==
    /\ [](\A t \in Threads : ReturnsAsAlone(t))
    /\ [][/\ retrieval_strategies' = retrieval_strategies
          /\ retrieval_strategies = StrategyTable
          /\ chunks' = chunks
          /\ query' = query]_vars

C13_Witness ==
    /\ frames[1].pc = "returned"
    /\ frames[1].enhanced_result.strategy = "multi_query"
    /\ frames[1].enhanced_result.top_chunks = 2
    /\ frames[2].pc = "return"
    /\ frames[2].given \in UnknownStrategies
    /\ frames[2].enhanced_result.strategy = "hybrid"

-----------------------------------------------------------------------------
(* C14: the collection of query variations                                 *)

\* C14: the list of variations holds the query as it was given, and holds no
\* string twice, whichever rewrite rules fire.
C14_VariationsHoldQueryOnce ==
    \A k \in DOMAIN varlog :
        LET variations == varlog[k].variations
        IN  /\ \E i \in DOMAIN variations : variations[i] = varlog[k].query
            /\ \A i, j \in DOMAIN variations : variations[i] = variations[j] => i = j

C14_Witness ==
    /\ Len(varlog) = 1
    /\ Len(varlog[1].variations) >= 5
    /\ Len(QueryVariationList(varlog[1].query)) > Len(varlog[1].variations)

-----------------------------------------------------------------------------
(* C15: degenerate texts                                                   *)

\* The keyword_match_ratio behind a hybrid score: what is left of the score
\* without its similarity and length terms, over the weight 0.4
KeywordMatchRatio(e) ==
    RMul(RSub(RSub(e.score, RMul(SimilarityScore(e.chunk, query), Rat(5, 10))),
              RMul(LengthBonus[e.pos], Rat(1, 10))),
         Rat(10, 4))

\* The numbers of the returned dictionary and of the selected entries
ReturnedNumbers ==
    CASE Ran = "hybrid" ->
            {result.average_score, result.keyword_coverage}
                \cup {selected[i].score : i \in DOMAIN selected}
      [] Ran = "rerank" ->
            {result.ranking_metrics.avg_relevance, result.ranking_metrics.avg_quality,
             result.ranking_metrics.avg_diversity}
                \cup UNION {{selected[i].score, selected[i].relevance, selected[i].quality,
                             selected[i].diversity} : i \in DOMAIN selected}
      [] Ran = "multi_query" -> {selected[i].score : i \in DOMAIN selected}
      [] Ran = "semantic_filter" ->
            {result.avg_semantic_overlap}
                \cup {selected[i].semantic_overlap : i \in DOMAIN selected}

\* C15: with a query that has no keyword every hybrid keyword_match_ratio and
\* the keyword_coverage are 0; the similarity with a text that has no word
\* token is 0; the overlap with an empty concept set is 0 and semantic_filter
\* selects no such passage; and every number returned is a quotient with a
\* divisor other than zero.
C15_DegenerateTextsScoreZero ==
    Returned =>
        /\ (Ran = "hybrid" /\ ExtractKeywords(query) = {}) =>
              /\ \A i \in DOMAIN selected :
                    /\ KeywordMatchRatio(selected[i]) = Zero
                    /\ selected[i].keywords_found = 0
              /\ result.keyword_coverage = Zero
        /\ \A p \in DOMAIN chunks :
              (WordSetOf(query) = {} \/ WordSetOf(chunks[p]) = {}) =>
                  /\ SimilarityScore(chunks[p], query) = Zero
                  /\ SimilarityScore(query, chunks[p]) = Zero
                  /\ \A i \in DOMAIN selected :
                        selected[i].pos = p =>
                            /\ Ran = "rerank" => selected[i].relevance = Zero
                            /\ (Ran = "multi_query" /\ Len(result.query_variations) = 1)
                                   => selected[i].score = Zero
        /\ \A p \in DOMAIN chunks :
              (ConceptsOf(query) = {} \/ ConceptsOf(chunks[p]) = {}) =>
                  /\ CandidateOverlap(p) = Zero
                  /\ Ran = "semantic_filter" => p \notin SelectedPositions
        /\ \A r \in ReturnedNumbers : r.d > 0

C15_Witness ==
    /\ Returned /\ Ran = "hybrid"
    /\ query = CaseTexts.NoKeywordsQuery
    /\ WordSet(query) # {}
    /\ ExtractKeywords(query) = {}
    /\ \E i, j \in DOMAIN selected :
          /\ selected[i].score = Rat(58, 100)
          /\ WordSet(selected[j].chunk) = {}

-----------------------------------------------------------------------------
(* C16: the threshold of semantic_filter                                   *)

\* The candidates whose concept overlap with the query is not below 0.3
AtOrAboveThreshold ==
    {p \in DOMAIN chunks : RLeq(OverlapThreshold, CandidateOverlap(p))}

\* C16 as stated: semantic_filter excludes a passage if and only if its
\* concept overlap with the query is below 0.3; a passage whose overlap is
\* exactly 0.3 is eligible, and is selected when no more than four are.
C16_ExcludedIffBelowThreshold ==
    (Returned /\ Ran = "semantic_filter") =>
        /\ result.filtered_chunks = Cardinality(AtOrAboveThreshold)
        /\ SelectedPositions \subseteq AtOrAboveThreshold
        /\ Cardinality(AtOrAboveThreshold) <= SemanticTopK
              => SelectedPositions = AtOrAboveThreshold

-----------------------------------------------------------------------------
(* C17: the diversity score of rerank                                      *)

\* The candidates that end up in the selection, in their input order
SelectedCandidates ==
    LET kept == {p \in DOMAIN chunks : p \in SelectedPositions}
        nth(k) == CHOOSE p \in kept : Cardinality({o \in kept : o <= p}) = k
    IN  [k \in 1..Cardinality(kept) |-> chunks[nth(k)]]

\* The diversity rerank gives the text when it is called with the candidates cs
DiversityAmong(text, cs) ==
    LET reranked_chunks == RerankedChunks(query, cs, Len(cs))
    IN  {reranked_chunks[k].diversity :
            k \in {j \in DOMAIN reranked_chunks : reranked_chunks[j].chunk = text}}

\* C17 as stated: the diversity of a selected passage is 1.0 when no passage
\* is ranked before it and otherwise 1 minus its average similarity to the
\* passages ranked before it in the selection; candidates that are not
\* selected have no influence on it.
C17_DiversityAgainstAccepted ==
    (Returned /\ Ran = "rerank") =>
        \A i \in DOMAIN selected :
            /\ selected[i].diversity =
                  DiversityScore(selected[i].chunk, SubSeq(selected, 1, i - 1))
            /\ selected[i].diversity \in
                  DiversityAmong(selected[i].chunk, SelectedCandidates)

-----------------------------------------------------------------------------
(* C18: the similarity of two texts                                        *)

\* The word tokens of a text: the substrings of the lower-cased text that are
\* made of word characters only and have no word character next to them
TokenSet(t) ==
    LET l == StrLower(t)
    IN  {SubSeq(l, i, j) : <<i, j>> \in
            {<<a, b>> \in (1..Len(l)) \X (1..Len(l)) :
                /\ a <= b
                /\ \A k \in a..b : IsWordChar(CharAt(l, k))
                /\ a = 1 \/ ~IsWordChar(CharAt(l, a - 1))
                /\ b = Len(l) \/ ~IsWordChar(CharAt(l, b + 1))}}

\* C18: similarity(a, b) is the number of word tokens the lower-cased texts
\* share over the number of tokens either holds, and 0.0 when one of them
\* holds none; it lies in [0, 1] and is 1.0 exactly when the two token sets
\* are equal and not empty.
C18_SimilarityIsTokenJaccard ==
    \A r \in simlog :
        LET tokens1 == TokenSet(r.a)
            tokens2 == TokenSet(r.b)
        IN  /\ (tokens1 = {} \/ tokens2 = {}) => r.val = Zero
            /\ (tokens1 # {} /\ tokens2 # {}) =>
                  r.val.n * Cardinality(tokens1 \cup tokens2)
                      = r.val.d * Cardinality(tokens1 \cap tokens2)
            /\ InUnitInterval(r.val)
            /\ r.val = One <=> (tokens1 = tokens2 /\ tokens1 # {})

C18_Witness ==
    \E r \in simlog :
        /\ r.val = Rat(1, 2)
        /\ r.a # StrLower(r.a)
        /\ Cardinality(TokenSet(r.a)) = 2
        /\ TokenSet(r.b) \subseteq TokenSet(r.a)

-----------------------------------------------------------------------------
(* C19: the hybrid primary score                                           *)

\* The query keywords that occur in the lower-cased passage
KeywordsPresent(chunk, keywords) ==
    LET text_lower == StrLower(chunk)
    IN  {k \in keywords : StrContains(text_lower, k)}

\* 100 * (0.4 * found / count + 0.5 * similarity + 0.1 * length_bonus) as a
\* quotient over count * similarity.d, with count 1 and found 0 for a query
\* without keywords; length_bonus is 1.0 from 100 to 500 characters, else 0.8
HybridPercentOver(found, count, similarity, length) ==
    40 * found * similarity.d + 50 * similarity.n * count
        + (IF 100 <= length /\ length <= 500 THEN 10 ELSE 8) * count * similarity.d

\* The entry's score is the weighted sum, its keywords_found the number of
\* query keywords present
HybridEntryAsStated(e, present, count, similarity) ==
    /\ e.keywords_found = Cardinality(present)
    /\ e.keywords_found <= count
    /\ e.score.n * (100 * (IF count = 0 THEN 1 ELSE count) * similarity.d)
          = e.score.d * HybridPercentOver(Cardinality(present),
                                          IF count = 0 THEN 1 ELSE count,
                                          similarity, Len(e.chunk))

\* C19: the hybrid score of every passage is 0.4 * keyword_match_ratio + 0.5 *
\* similarity(passage, query) + 0.1 * length_bonus, the bonus 1.0 for a length
\* from 100 to 500 characters inclusive and 0.8 otherwise, the ratio the
\* number of query keywords present in the passage over the number of query
\* keywords (0 without keywords); keywords_found never exceeds the number of
\* query keywords.
C19_HybridScoreFormula ==
    (Returned /\ Ran = "hybrid") =>
        \A i \in DOMAIN selected :
            HybridEntryAsStated(selected[i],
                                KeywordsPresent(selected[i].chunk, ExtractKeywords(query)),
                                Cardinality(ExtractKeywords(query)),
                                SimilarityScore(selected[i].chunk, query))

C19_Witness ==
    /\ Returned /\ Ran = "hybrid"
    /\ \E i, j \in DOMAIN selected :
          /\ Len(selected[i].chunk) = LenBonusMin
          /\ Len(selected[j].chunk) = LenBonusMin - 1
          /\ selected[i].keywords_found = 2
          /\ RLess(selected[j].score, selected[i].score)

-----------------------------------------------------------------------------
(* C20: the score and the best match of multi_query                        *)

\* The similarity of the text to each variation of the list
VariationScores(text, variations) ==
    [k \in DOMAIN variations |-> SimilarityScore(text, variations[k])]

\* The entry reports the highest of the scores and a variation that has it,
\* the query itself when every score is 0
ReportsBestVariation(e, variations, scores) ==
    /\ \A k \in DOMAIN scores : RLeq(scores[k], e.score)
    /\ \E k \in DOMAIN scores : variations[k] = e.best_match /\ scores[k] = e.score
    /\ (\A k \in DOMAIN scores : scores[k] = Zero) => e.best_match = query

\* C20: for every passage multi_query reports, the score is the maximum of
\* similarity(passage, v) over the variations v, and best_match is one of the
\* variations whose similarity to the passage is that score, the original
\* query when every variation scores 0.
C20_ScoreIsMaxOverVariations ==
    (Returned /\ Ran = "multi_query") =>
        \A i \in DOMAIN selected :
            ReportsBestVariation(selected[i], result.query_variations,
                                 VariationScores(selected[i].chunk, result.query_variations))

C20_Witness ==
    /\ Returned /\ Ran = "multi_query"
    /\ Len(result.query_variations) = 2
    /\ result.query_variations[2] = query
    /\ \E i, j \in DOMAIN selected :
          /\ selected[i].best_match # query
          /\ RLess(SimilarityScore(selected[i].chunk, query), selected[i].score)
          /\ selected[j].score = Zero
          /\ selected[j].best_match = query

-----------------------------------------------------------------------------
(* C21: multi_query and the iteration order of the variations             *)

\* What an entry of top_chunks shows of a passage
ShownOf(e) == [chunk |-> e.chunk, score |-> e.score, best_match |-> e.best_match]

\* C21 as stated: whatever the order the variations are iterated in, the
\* multi_query strategy selects the same passages in the same order with the
\* same scores and the same best_match, and reports the same
\* variation_coverage.
C21_SameForEveryVariationOrder ==
    (Returned /\ Ran = "multi_query") =>
        \A h \in Orderings(GenerateQueryVariations(query)) :
            LET other == MultiQueryExpansion(query, chunks, h)
            IN  /\ [i \in DOMAIN other.top |-> ShownOf(other.top[i])]
                      = [i \in DOMAIN selected |-> ShownOf(selected[i])]
                /\ other.result.variation_coverage = result.variation_coverage

-----------------------------------------------------------------------------
(* C22 .. C24: the rewrites of the query expander                          *)

\* The query of a call of the expander contains the term, in the letter case
\* the expander tests it in (it tests the lower-cased query)
Mentions(q, term) == StrContains(StrLower(q), term)

\* The variations a call of the expander returned
VariationsOf(e) == Range(e.variations)

\* C22 as stated: a query that contains "how" expands to the three rewrites
\* that put "what steps", "procedure for" and "method to" in the place of
\* "how"; each rewrite differs from the query, so there are at least four
\* variations.
C22_HowToRewrites ==
    \A k \in DOMAIN varlog :
        LET q == varlog[k].query
            rewrites == {StrReplace(q, "how", new) :
                            new \in {"what steps", "procedure for", "method to"}}
        IN  Mentions(q, "how") =>
                /\ rewrites \subseteq VariationsOf(varlog[k])
                /\ q \notin rewrites
                /\ Cardinality(VariationsOf(varlog[k])) >= 4

\* The substitute of each problem term
ProblemRewrites == [error |-> "solution", problem |-> "fix", issue |-> "resolve"]

\* C23 as stated: for each of the terms error, problem and issue that the
\* query contains, the variations hold the rewrite of the query with that
\* term replaced by solution, fix or resolve; for a term the query does not
\* contain no variation brings in its substitute.
C23_ProblemRewrites ==
    \A k \in DOMAIN varlog :
        LET q == varlog[k].query
        IN  \A term \in DOMAIN ProblemRewrites :
                LET rewrite == StrReplace(q, term, ProblemRewrites[term])
                IN  IF Mentions(q, term)
                    THEN rewrite \in VariationsOf(varlog[k]) /\ rewrite # q
                    ELSE \A v \in VariationsOf(varlog[k]) :
                            ~Mentions(v, ProblemRewrites[term])

\* The query with its first n characters replaced by new
WithPrefixReplaced(q, n, new) == new \o SubSeq(q, n + 1, Len(q))

\* C24 as stated: a query that starts with "what is" expands to the three
\* rewrites that put define, explain and describe in the place of that
\* prefix and leave the rest of the query as it is; a query that does not
\* start with "what is" gets no variation that starts with one of the three.
C24_DefinitionRewrites ==
    \A k \in DOMAIN varlog :
        LET q == varlog[k].query
        IN  IF StartsWith(StrLower(q), "what is")
            THEN \A new \in {"define", "explain", "describe"} :
                    WithPrefixReplaced(q, Len("what is"), new) \in VariationsOf(varlog[k])
            ELSE \A v \in VariationsOf(varlog[k]), new \in {"define", "explain", "describe"} :
                    ~StartsWith(v, new)

-----------------------------------------------------------------------------
(* C25: the quality score                                                  *)

\* The bullet glyphs of a list item, '-', the bullet dot and '*': those of
\* them that occur in the texts here
BulletGlyphs == {"-", "*"}

\* Structure and sentence score of a passage as C25 states them
StructureAsStated(chunk) ==
    IF HasNumberedItem(chunk) \/ CharsOf(chunk) \cap BulletGlyphs # {}
    THEN One ELSE Rat(1, 2)

SentenceAsStated(chunk) ==
    LET trimmed == StrStrip(chunk)
    IN  IF trimmed # "" /\ CharAt(trimmed, Len(trimmed)) \in {".", "!", "?"}
        THEN One ELSE Rat(1, 2)

QualityAsStated(chunk) ==
    RAdd(RAdd(RMul(Rat(4, 10), RMin(Rat(Len(chunk), 200), One)),
              RMul(Rat(3, 10), StructureAsStated(chunk))),
         RMul(Rat(3, 10), SentenceAsStated(chunk)))

\* C25 as stated: the quality of every passage the rerank strategy reports is
\* 0.4 * min(length / 200, 1) + 0.3 * structure + 0.3 * sentence, structure
\* being 1 exactly for a passage with a numbered item or a bullet glyph and
\* sentence 1 exactly for a passage that ends, once trimmed, in '.', '!' or
\* '?', and 0.5 otherwise.
C25_QualityFormula ==
    (Returned /\ Ran = "rerank") =>
        \A i \in DOMAIN selected : selected[i].quality = QualityAsStated(selected[i].chunk)

-----------------------------------------------------------------------------
(* C26: the layout of the enhanced context                                 *)

\* The end of the header that starts at position p of ctx: the position of
\* the first "]" that a newline follows, 0 if there is none
HeaderClose(ctx, p) ==
    LET closes == {e \in p..(Len(ctx) - 1) : SubSeq(ctx, e, e + 1) = "]\n"}
    IN  IF closes = {} THEN 0 ELSE Least(closes)

RECURSIVE SectionsFrom(_, _, _, _)
\* ctx from position p on is made of the sections of the passages of rank k
\* and beyond: a header "[Section k - ...]", a newline and the text of the
\* passage, and a blank line between one section and the next
SectionsFrom(ctx, passages, p, k) ==
    LET head  == "[Section " \o IntToStr(k) \o " - "
        close == HeaderClose(ctx, p + Len(head))
        after == close + 2 + Len(passages[k])
    IN  /\ SubSeq(ctx, p, p + Len(head) - 1) = head
        /\ close # 0
        /\ SubSeq(ctx, close + 2, after - 1) = passages[k]
        /\ IF k = Len(passages) THEN after = Len(ctx) + 1
           ELSE /\ SubSeq(ctx, after, after + 1) = "\n\n"
                /\ SectionsFrom(ctx, passages, after + 2, k + 1)

\* C26: for every strategy the enhanced context is made of top_chunks
\* sections with one blank line between two of them; the section of the
\* passage of rank k is the header "[Section k - ...]", a newline and the
\* text of the passage as it was handed in; the context of a single passage
\* ends with the passage and holds no separator.
C26_ContextLayout ==
    Returned =>
        LET passages == [i \in DOMAIN selected |-> selected[i].chunk]
        IN  /\ result.top_chunks = Len(passages)
            /\ IF passages = <<>> THEN result.enhanced_context = ""
               ELSE SectionsFrom(result.enhanced_context, passages, 1, 1)

\* Three sections, none of them in the place its passage had among the
\* candidates
C26_Witness ==
    /\ Returned
    /\ Len(selected) = 3
    /\ \A i \in DOMAIN selected : selected[i].pos # i /\ selected[i].chunk = chunks[selected[i].pos]
    /\ SectionCount(result.enhanced_context) = 3

-----------------------------------------------------------------------------
(* C27: the keyword coverage of the hybrid result                          *)

\* The query keywords that occur in one of the passages
KeywordsCoveredBy(passages, keywords) ==
    {k \in keywords : \E i \in DOMAIN passages : k \in KeywordsPresent(passages[i], keywords)}

\* C27: keyword_coverage of the hybrid result is the number of query keywords
\* that occur in at least one selected passage over the number of query
\* keywords, and 0 for a query without keywords.
C27_CoverageOfSelected ==
    (Returned /\ Ran = "hybrid") =>
        LET keywords == ExtractKeywords(query)
            covered  == KeywordsCoveredBy([i \in DOMAIN selected |-> selected[i].chunk],
                                          keywords)
        IN  result.keyword_coverage =
                IF keywords = {} THEN Zero
                ELSE Rat(Cardinality(covered), Cardinality(keywords))

\* A keyword that only a candidate left out of the selection holds
C27_Witness ==
    /\ Returned /\ Ran = "hybrid"
    /\ Len(selected) < Len(chunks)
    /\ KeywordsCoveredBy(chunks, ExtractKeywords(query)) = ExtractKeywords(query)
    /\ result.keyword_coverage = Rat(1, 2)

-----------------------------------------------------------------------------
(* C28: the selection is drawn from the candidates                         *)

\* The number of elements of the list that are the text t
Occurrences(list, t) == Cardinality({i \in DOMAIN list : list[i] = t})

\* C28: for every strategy the selected passages are a sub-multiset of the
\* candidates: each selected entry holds the text of a candidate position of
\* its own, so no text is selected more often than it occurs among the
\* candidates; top_chunks is the number of selected passages and at most
\* chunks_analyzed, which is the number of candidates; for semantic_filter
\* filtered_chunks lies between the two.
C28_SelectionWithinCandidates ==
    Returned =>
        LET passages == [i \in DOMAIN selected |-> selected[i].chunk]
        IN  /\ \A i \in DOMAIN selected : chunks[selected[i].pos] = passages[i]
            /\ \A i, j \in DOMAIN selected : i # j => selected[i].pos # selected[j].pos
            /\ \A t \in Range(passages) : Occurrences(passages, t) <= Occurrences(chunks, t)
            /\ result.top_chunks = Len(selected)
            /\ result.top_chunks <= result.chunks_analyzed
            /\ result.chunks_analyzed = Len(chunks)
            /\ Ran = "semantic_filter" =>
                  /\ result.top_chunks <= result.filtered_chunks
                  /\ result.filtered_chunks <= result.chunks_analyzed

\* A text that three of six candidates hold and hybrid, which selects five
\* of them, selects twice
C28_Witness ==
    /\ Returned /\ Ran = "hybrid"
    /\ Len(selected) < Len(chunks)
    /\ \E i \in DOMAIN selected :
          /\ Occurrences(chunks, selected[i].chunk) = 3
          /\ Occurrences([j \in DOMAIN selected |-> selected[j].chunk], selected[i].chunk) = 2

-----------------------------------------------------------------------------
(* C29, C30: the settings of the QAEngine and its query log                *)

\* C29: after any sequence of calls of the setters with arbitrary strings the
\* retrieval strategy is one of hybrid, rerank, multi_query, semantic_filter
\* and the prompt style one of basic, detailed, step_by_step,
\* troubleshooting; a call with a name outside the set leaves the current
\* value unchanged, and each setter leaves the other setting and both
\* toggles unchanged.
C29_SettersKeepValidNames ==
    /\ [](/\ retrieval_strategy \in {"hybrid", "rerank", "multi_query", "semantic_filter"}
          /\ prompt_style \in {"basic", "detailed", "step_by_step", "troubleshooting"})
    /\ [][\A s \in SetterInputs :
            /\ SetRetrievalStrategy(s) =>
                  /\ s \notin {"hybrid", "rerank", "multi_query", "semantic_filter"}
                        => retrieval_strategy' = retrieval_strategy
                  /\ UNCHANGED <<prompt_style, use_enhanced_context,
                                 use_chain_of_thought>>
            /\ SetPromptStyle(s) =>
                  /\ s \notin {"basic", "detailed", "step_by_step", "troubleshooting"}
                        => prompt_style' = prompt_style
                  /\ UNCHANGED <<retrieval_strategy, use_enhanced_context,
                                 use_chain_of_thought>>]_vars

\* Both setters and both toggles have acted and the report shows the names
\* they stored
C29_Witness ==
    /\ retrieval_strategy = "semantic_filter"
    /\ prompt_style = "troubleshooting"
    /\ ~use_enhanced_context
    /\ use_chain_of_thought
    /\ reply.kind = "metrics"
    /\ reply.current_strategy = "semantic_filter"
    /\ reply.current_prompt_style = "troubleshooting"

RECURSIVE UsageTotal(_, _)
\* The sum of the counts the dictionary usage holds for the names
UsageTotal(usage, names) ==
    IF names = {} THEN 0
    ELSE LET s == CHOOSE n \in names : TRUE
         IN  usage[s] + UsageTotal(usage, names \ {s})

\* C30: over any sequence of calls of ask, exactly one record is appended to
\* the query log of the session for each ask that completes without an
\* exception and none for an ask that fails; the retrieval_strategy of the
\* record is the strategy that ran when enhanced context is enabled and
\* 'unknown' when it is disabled; a report of get_performance_metrics holds
\* the number of completed asks as total_queries, and the counts of its
\* strategy_usage sum to total_queries.
C30_OneRecordPerCompletedAsk ==
    /\ [](/\ Len(query_metadata) = asked.completed
          /\ reply.kind = "metrics" =>
                /\ reply.total_queries = asked.completed
                /\ UsageTotal(reply.strategy_usage, DOMAIN reply.strategy_usage)
                      = reply.total_queries)
    /\ [][/\ asked'.failed # asked.failed => query_metadata' = query_metadata
          /\ asked'.completed # asked.completed =>
                /\ asked'.completed = asked.completed + 1
                /\ Len(query_metadata') = Len(query_metadata) + 1
                /\ SubSeq(query_metadata', 1, Len(query_metadata)) = query_metadata
                /\ query_metadata'[Len(query_metadata')].retrieval_strategy =
                      IF use_enhanced_context
                      THEN ResolveStrategy(retrieval_strategy) ELSE "unknown"]_vars

\* Three asks, one with enhanced context under multi_query, one without
\* enhanced context and one that failed, and then the report
C30_Witness ==
    /\ asked = [completed |-> 2, failed |-> 1]
    /\ Len(chunks) = 1
    /\ Len(query_metadata) = 2
    /\ query_metadata[1].retrieval_strategy = "multi_query"
    /\ query_metadata[1].chunks_analyzed = 1
    /\ query_metadata[2].retrieval_strategy = "unknown"
    /\ reply.kind = "metrics"
    /\ reply.total_queries = 2
    /\ reply.strategy_usage = [s \in {"multi_query", "unknown"} |-> 1]

=============================================================================
